---- MODULE Spec2Model ----
(***************************************************************************)
(* Verification model of the CLASSIC crash-log scanner:                    *)
(*   - ClassicLib/ScanLog/Parser.py          (segment extraction)          *)
(*   - ClassicLib/ScanLog/SuspectScanner.py  (suspect rule engine)         *)
(*   - ClassicLib/ScanLog/FCXModeHandler.py  (session validation cache)    *)
(*   - CLASSIC_ScanLogs.py                   (batch runner)                *)
(* Each component has its own specification (SpecSeg, SpecSus, SpecFcx,    *)
(* SpecBatch); the variables of the components a specification does not    *)
(* exercise stay at their idle values.                                     *)
(***************************************************************************)
EXTENDS Integers, Sequences, FiniteSets, TLC

VARIABLES
    \* ---- Parser.extract_segments / find_segments
    crash_data,            \* the log's lines
    current_index,         \* 0-based index of the line under examination
    segment_index,         \* index of the boundary pair being looked for
    collecting,            \* inside a segment?
    segment_start_index,   \* 0-based index of the first line of the open segment
    current_boundary,      \* the marker the scan is waiting for
    segments,              \* the segments appended so far
    processed_segments,    \* find_segments' stripped and padded result
    seg_pc,                \* "idle" | "loop" | "extracted" | "done" | "raised"
    \* ---- SuspectScanner.suspect_scan_stack
    suspects_stack_list,       \* the rule database: a sequence of [severity, name, signals]
    crashlog_mainerror,        \* the main error string
    segment_callstack_intact,  \* the callstack segment as one text
    rule_no,                   \* number of rules of the database iterated so far
    error_key,                 \* key of the rule under evaluation
    signal_list,               \* its signals
    signal_no,                 \* 1-based index of the next signal to process
    match_status,              \* the match-state record of the rule
    autoscan_report,           \* lines appended to the report by this call
    any_suspect_found,         \* the flag suspect_scan_stack returns
    sus_pc,                    \* "idle" | "rules" | "signals" | "returned"
    \* ---- FCXModeHandler (class-level cache, and one handler per caller)
    fcx_lock,              \* FCXModeHandler._fcx_lock: [owner, count], owner 0 = free
    fcx_checks_run,        \* FCXModeHandler._fcx_checks_run
    main_files_result,     \* FCXModeHandler._main_files_result
    game_files_result,     \* FCXModeHandler._game_files_result
    fcx_mode,              \* caller -> its handler's fcx_mode
    main_files_check,      \* caller -> its handler's main_files_check
    game_files_check,      \* caller -> its handler's game_files_check
    fcx_pc,                \* caller -> position in check_fcx_mode
    main_calls,            \* results of the calls of main_combined_result, in order
    game_calls,            \* results of the calls of game_combined_result, in order
    \* ---- CLASSIC_ScanLogs.crashlogs_scan
    batch_pc,              \* "idle" | "start" | "reset" | "submit" | "consume" |
                           \* "notice" | "terminal" | "end"
    settings,              \* scanner.fcx_mode, scanner.move_unsolved_logs
    crashlog_list,         \* scanner.crashlog_list: the files 1..n of the batch
    task,                  \* file -> state and outcome of its future
    consumed,              \* file -> how the consumer loop dealt with its future
    crashlog_stats,        \* scanner.crashlog_stats
    scan_failed_list,      \* names of the files whose failed-flag was set
    log_place,             \* file -> where its crash log is
    report_place,          \* file -> where its report is
    stray_files,           \* crash-*.txt files in the working directory
    notice,                \* the combined notice of lines 173-184
    terminal_message,      \* the message of lines 189-205
    fcx_trace,             \* this batch's cache events: checks requested
                           \* before the reset, resets, computations
    \* ---- FormIDAnalyzer.extract_formids
    segment_callstack,     \* the callstack lines, each a sequence of characters
    formid_line_no,        \* number of lines the loop has dealt with
    formids_matches,       \* the list being built
    fid_pc,                \* "idle" | "loop" | "returned"
    \* ---- PluginAnalyzer.loadorder_scan_loadorder_txt
    loadorder_file,        \* loadorder.txt: [readable, lines]
    loadorder_data,        \* the lines read
    loadorder_index,       \* number of entries of loadorder_data[1:] dealt with
    loadorder_plugins,     \* the dict being built: a sequence of [name, status]
    plugins_loaded,        \* the returned flag
    loadorder_report,      \* what the call appended to autoscan_report
    lo_pc,                 \* "idle" | "open" | "loop" | "check" | "returned"
    \* ---- PluginAnalyzer.plugin_match
    segment_callstack_lower,   \* the lowercased callstack lines
    crashlog_plugins_lower,    \* the set of lowercased plugin names
    plugins_iteration,         \* the order in which the set is iterated
    lower_plugins_ignore,      \* self.lower_plugins_ignore
    plugin_line_no,            \* number of relevant lines dealt with
    plugins_matches,           \* the Counter: a sequence of [name, count]
    plugin_report,             \* what the call appended to autoscan_report
    pm_pc,                     \* "idle" | "loop" | "returned"
    \* ---- RecordScanner.scan_named_records
    record_callstack,      \* segment_callstack: the callstack lines
    lower_records,         \* self.lower_records
    lower_ignore,          \* self.lower_ignore
    record_line_no,        \* number of lines dealt with
    records_matches,       \* the list of captured texts
    record_report,         \* what the call appended to autoscan_report
    rec_pc,                \* "idle" | "loop" | "report" | "returned"
    \* ---- Parser.parse_crash_header
    header_data,           \* crash_data: the lines of the log
    game_root_name,        \* the prefix of the game version line
    crashgen_name,         \* the prefix of the generator version line
    header_line_no,        \* number of lines dealt with
    game_version,          \* the three fields
    crashgen_version,
    main_error,
    hdr_pc,                \* "idle" | "loop" | "returned"
    \* ---- PluginAnalyzer.loadorder_scan_log
    segment_plugins,           \* the lines of the plugins segment
    plugin_game,               \* [is_original_game, is_new_game_crashgen_pre_137]
    plugin_entry_no,           \* number of entries dealt with
    plugin_map,                \* the dict being built: a sequence of [name, status]
    plugin_limit_triggered,    \* the two returned flags
    limit_check_disabled,
    pl_pc,                     \* "idle" | "loop" | "returned"
    \* ---- PluginAnalyzer.filter_ignored_plugins
    ignore_plugins_list,       \* the lowercased ignore set of the constructor
    crashlog_plugins,          \* the dict filtered in place: a sequence of [name, status]
    crashlog_plugins_given,    \* the dict as it was at the call
    lower_to_key,              \* crashlog_plugins_lower: lowercased key -> key
    ignore_pending,            \* the signals the loop has yet to visit
    flt_pc,                    \* "idle" | "called" | "loop" | "returned"
    \* ---- FormIDAnalyzer.formid_match
    fm_formids,                \* the parameter formids_matches
    fm_plugins,                \* the parameter crashlog_plugins: a sequence of [name, status]
    show_formid_values,        \* the two flags of the analyzer
    formid_db_exists,
    formid_db,                 \* the (suffix, plugin) pairs the lookup knows
    formids_found,             \* Counter(sorted(...)): a sequence of [name, count]
    fm_group_no,               \* the group the outer loop is at
    fm_plugin_no,              \* plugins of the group dealt with
    fm_report,                 \* what the call appended to autoscan_report
    fm_pc,                     \* "idle" | "called" | "plugins" | "returned"
    \* ---- SettingsScanner.scan_buffout_memorymanagement_settings
    mm_crashgen,               \* the parameter crashgen: key -> value
    has_xcell,                 \* the two presence flags
    has_baka_scrapheap,
    mm_setting_no,             \* auxiliary settings dealt with
    mm_report,                 \* the lines the call appended to autoscan_report
    mm_pc,                     \* "idle" | "main" | "settings" | "returned"
    reset_pc                  \* where the caller of reset_fcx_checks stands

segVars == <<crash_data, current_index, segment_index, collecting,
             segment_start_index, current_boundary, segments,
             processed_segments, seg_pc>>

susVars == <<suspects_stack_list, crashlog_mainerror, segment_callstack_intact, rule_no, error_key,
             signal_list, signal_no, match_status, autoscan_report,
             any_suspect_found, sus_pc>>

\* the class-level cache
fcxClassVars == <<fcx_lock, fcx_checks_run, main_files_result,
                  game_files_result, main_calls, game_calls>>

\* the callers and their handlers
fcxCallerVars == <<fcx_mode, main_files_check, game_files_check, fcx_pc>>

fcxVars == <<fcxClassVars, fcxCallerVars>>

batchVars == <<batch_pc, settings, crashlog_list, task, consumed,
               crashlog_stats, scan_failed_list, log_place, report_place,
               stray_files, notice, terminal_message, fcx_trace>>

fidVars == <<segment_callstack, formid_line_no, formids_matches, fid_pc>>

loVars == <<loadorder_file, loadorder_data, loadorder_index, loadorder_plugins, plugins_loaded, loadorder_report, lo_pc>>

pmVars == <<segment_callstack_lower, crashlog_plugins_lower, plugins_iteration, lower_plugins_ignore, plugin_line_no, plugins_matches, plugin_report, pm_pc>>

recVars == <<record_callstack, lower_records, lower_ignore, record_line_no, records_matches, record_report, rec_pc>>

hdrVars == <<header_data, game_root_name, crashgen_name, header_line_no, game_version, crashgen_version, main_error, hdr_pc>>

plVars == <<segment_plugins, plugin_game, plugin_entry_no, plugin_map, plugin_limit_triggered, limit_check_disabled, pl_pc>>

fltVars == <<ignore_plugins_list, crashlog_plugins, crashlog_plugins_given, lower_to_key, ignore_pending, flt_pc>>

fmVars == <<fm_formids, fm_plugins, show_formid_values, formid_db_exists, formid_db, formids_found, fm_group_no, fm_plugin_no, fm_report, fm_pc>>

mmVars == <<mm_crashgen, has_xcell, has_baka_scrapheap, mm_setting_no, mm_report, mm_pc>>

rstVars == <<reset_pc>>

vars == <<segVars, susVars, fcxVars, batchVars, fidVars, loVars, pmVars, recVars, hdrVars, plVars, fltVars, fmVars, mmVars, rstVars>>

\* What the actions of one component leave alone.
segOthers == <<susVars, fcxVars, batchVars, fidVars, loVars, pmVars, recVars, hdrVars, plVars, fltVars, fmVars, mmVars, rstVars>>
susOthers == <<segVars, fcxVars, batchVars, fidVars, loVars, pmVars, recVars, hdrVars, plVars, fltVars, fmVars, mmVars, rstVars>>
fcxOthers == <<segVars, susVars, batchVars, fidVars, loVars, pmVars, recVars, hdrVars, plVars, fltVars, fmVars, mmVars, rstVars>>
batchOthers == <<segVars, susVars, fidVars, loVars, pmVars, recVars, hdrVars, plVars, fltVars, fmVars, mmVars, rstVars>>
rstOthers == <<segVars, susVars, batchVars, fidVars, loVars, pmVars, recVars, hdrVars, plVars, fltVars, fmVars, mmVars>>
mmOthers == <<segVars, susVars, fcxVars, batchVars, fidVars, loVars, pmVars, recVars, hdrVars, plVars, fltVars, fmVars, rstVars>>
fmOthers == <<segVars, susVars, fcxVars, batchVars, fidVars, loVars, pmVars, recVars, hdrVars, plVars, fltVars, mmVars, rstVars>>
fltOthers == <<segVars, susVars, fcxVars, batchVars, fidVars, loVars, pmVars, recVars, hdrVars, plVars, fmVars, mmVars, rstVars>>
plOthers == <<segVars, susVars, fcxVars, batchVars, fidVars, loVars, pmVars, recVars, hdrVars, fltVars, fmVars, mmVars, rstVars>>
hdrOthers == <<segVars, susVars, fcxVars, batchVars, fidVars, loVars, pmVars, recVars, plVars, fltVars, fmVars, mmVars, rstVars>>
recOthers == <<segVars, susVars, fcxVars, batchVars, fidVars, loVars, pmVars, hdrVars, plVars, fltVars, fmVars, mmVars, rstVars>>
pmOthers == <<segVars, susVars, fcxVars, batchVars, fidVars, loVars, recVars, hdrVars, plVars, fltVars, fmVars, mmVars, rstVars>>
loOthers == <<segVars, susVars, fcxVars, batchVars, fidVars, pmVars, recVars, hdrVars, plVars, fltVars, fmVars, mmVars, rstVars>>
fidOthers == <<segVars, susVars, fcxVars, batchVars, loVars, pmVars, recVars, hdrVars, plVars, fltVars, fmVars, mmVars, rstVars>>

(***************************************************************************)
(* Generic helpers                                                         *)
(***************************************************************************)

Min(a, b) == IF a < b THEN a ELSE b

\* Python's s[a:b] for 0 <= a, 0 <= b (0-based, end exclusive, clipped).
Slice(s, a, b) == SubSeq(s, a + 1, Min(b, Len(s)))

\* Python's s[a:]
SliceFrom(s, a) == SubSeq(s, a + 1, Len(s))

(***************************************************************************)
(* Parser.py : lines, markers, strip and startswith                        *)
(*                                                                         *)
(* A line is a record [pre, text, post]: leading whitespace, the text, and *)
(* trailing whitespace.  The texts of the model are the marker texts and   *)
(* the content texts "c<i>", none of which begins with another, so         *)
(* str.startswith(marker) is equality of (pre, text).                      *)
(***************************************************************************)

\* bounds of the inputs
MaxGap == 2
MaxLines == 4

Marker(pre, text) == [pre |-> pre, text |-> text]

\* find_segments' boundary table for xse_acronym = "f4se"
segment_boundaries ==
    << <<Marker("\t", "[Compatibility]"), Marker("", "SYSTEM SPECS:")>>,
       <<Marker("", "SYSTEM SPECS:"), Marker("", "PROBABLE CALL STACK:")>>,
       <<Marker("", "PROBABLE CALL STACK:"), Marker("", "MODULES:")>>,
       <<Marker("", "MODULES:"), Marker("", "F4SE PLUGINS:")>>,
       <<Marker("", "F4SE PLUGINS:"), Marker("", "PLUGINS:")>>,
       <<Marker("", "PLUGINS:"), Marker("", "EOF")>> >>

eof_marker == Marker("", "EOF")

NumPairs == Len(segment_boundaries)

\* line.startswith(boundary)
StartsWith(line, boundary) ==
    line.pre = boundary.pre /\ line.text = boundary.text

\* line.strip()
Strip(line) == [pre |-> "", text |-> line.text, post |-> ""]

\* [line.strip() for line in segment]
StripAll(segment) == [i \in 1..Len(segment) |-> Strip(segment[i])]

\* The marker line that starts pair k (k in 1..NumPairs).
MarkerLine(k) ==
    [pre |-> segment_boundaries[k][1].pre,
     text |-> segment_boundaries[k][1].text,
     post |-> ""]

\* A content line; its text names its (1-based) position, so that every
\* content line of a log is distinct, and its padding varies with the position.
ContentLine(i) ==
    [pre |-> IF i % 2 = 1 THEN "  " ELSE "",
     text |-> "c" \o ToString(i),
     post |-> IF i % 3 = 0 THEN " " ELSE ""]

\* The log whose i-th line is of kind kinds[i]: 0 a content line, k the
\* start marker of pair k.
MakeLog(kinds) ==
    [i \in 1..Len(kinds) |->
        IF kinds[i] = 0 THEN ContentLine(i) ELSE MarkerLine(kinds[i])]

Zeros(n) == [i \in 1..n |-> 0]

\* Kinds of a complete, well-ordered log: gaps[1] content lines, then for
\* k = 1..NumPairs marker k followed by gaps[k+1] content lines.
RECURSIVE WellOrderedFrom(_, _)
WellOrderedFrom(gaps, k) ==
    IF k > NumPairs THEN <<>>
    ELSE <<k>> \o Zeros(gaps[k + 1]) \o WellOrderedFrom(gaps, k + 1)

WellOrderedKinds ==
    { Zeros(g[1]) \o WellOrderedFrom(g, 1) :
        g \in [1..(NumPairs + 1) -> 0..MaxGap] }

\* Any sequence of at most MaxLines lines.
ArbitraryKinds ==
    UNION { [1..n -> 0..NumPairs] : n \in 0..MaxLines }

SegInputs == { MakeLog(k) : k \in WellOrderedKinds \cup ArbitraryKinds }

(***************************************************************************)
(* Parser.extract_segments, one action per branch of the loop body         *)
(***************************************************************************)

total_lines == Len(crash_data)

CurrentLine == crash_data[current_index + 1]

AtBoundary ==
    /\ seg_pc = "loop"
    /\ current_index < total_lines
    /\ StartsWith(CurrentLine, current_boundary)

\* Parser.py line 69
SegmentEndIndex(idx) == IF idx > 0 THEN idx - 1 ELSE idx

\* Parser.py line 78
SegmentStartIndex(idx, total) == IF total > idx THEN idx + 1 ELSE idx

\* Mutant of TailAppend: the rest is appended at every line collected.
TailAppend_EveryLine(segs, coll, idx, start) ==
    IF coll THEN Append(segs, SliceFrom(crash_data, start)) ELSE segs

\* Lines 94-96: reached the last line while still collecting.
TailAppend(segs, coll, idx, start) ==
    IF coll /\ idx = total_lines - 1
    THEN Append(segs, SliceFrom(crash_data, start))
    ELSE segs

SegInit ==
    /\ crash_data \in SegInputs
    /\ current_index = 0
    /\ segment_index = 0
    /\ collecting = FALSE
    /\ segment_start_index = 0
    /\ current_boundary = segment_boundaries[1][1]
    /\ segments = <<>>
    /\ processed_segments = <<>>
    /\ seg_pc = "loop"

SegIdle ==
    /\ crash_data = <<>>
    /\ current_index = 0
    /\ segment_index = 0
    /\ collecting = FALSE
    /\ segment_start_index = 0
    /\ current_boundary = segment_boundaries[1][1]
    /\ segments = <<>>
    /\ processed_segments = <<>>
    /\ seg_pc = "idle"

\* The line is not the awaited boundary (lines 66, 94-98).
SegOrdinaryLine ==
    /\ seg_pc = "loop"
    /\ current_index < total_lines
    /\ ~StartsWith(CurrentLine, current_boundary)
    /\ segments' = TailAppend(segments, collecting, current_index,
                              segment_start_index)
    /\ current_index' = current_index + 1
    /\ UNCHANGED <<crash_data, segment_index, collecting, segment_start_index,
                   current_boundary, processed_segments, seg_pc>>
    /\ UNCHANGED segOthers

\* Mutant of AfterEndBoundary: the end marker line is consumed.
AfterEndBoundary_Consumed(idx) == idx + 1

\* lines 90-92 and 98: the index is taken back by one and then advanced
AfterEndBoundary(idx) == (idx - 1) + 1

\* The awaited end marker (lines 67-75, 81-82, 90-98).
SegEndBoundary ==
    /\ AtBoundary
    /\ collecting
    /\ segments' = Append(segments,
                          Slice(crash_data, segment_start_index,
                                SegmentEndIndex(current_index)))
    /\ segment_index' = segment_index + 1
    /\ IF segment_index' = NumPairs
       THEN \* line 75: break
            /\ seg_pc' = "extracted"
            /\ UNCHANGED <<collecting, current_boundary, current_index>>
       ELSE \* the line is examined again as a possible start marker
            /\ collecting' = FALSE
            /\ current_boundary' = segment_boundaries[segment_index' + 1][1]
            /\ current_index' = AfterEndBoundary(current_index)
            /\ seg_pc' = "loop"
    /\ UNCHANGED <<crash_data, segment_start_index, processed_segments>>
    /\ UNCHANGED segOthers

\* The awaited start marker (lines 76-88, 94-98).
SegStartBoundary ==
    /\ AtBoundary
    /\ ~collecting
    /\ segment_start_index' = SegmentStartIndex(current_index, total_lines)
    /\ collecting' = TRUE
    /\ IF segment_index >= NumPairs
       THEN \* segment_boundaries[segment_index] would raise IndexError
            /\ seg_pc' = "raised"
            /\ UNCHANGED <<current_boundary, segments, current_index>>
       ELSE /\ current_boundary' = segment_boundaries[segment_index + 1][2]
            /\ IF current_boundary' = eof_marker
               THEN \* lines 85-88: all remaining lines, break
                    /\ segments' = Append(segments,
                                     SliceFrom(crash_data, segment_start_index'))
                    /\ seg_pc' = "extracted"
                    /\ UNCHANGED current_index
               ELSE /\ segments' = TailAppend(segments, TRUE, current_index,
                                              segment_start_index')
                    /\ current_index' = current_index + 1
                    /\ seg_pc' = "loop"
    /\ UNCHANGED <<crash_data, segment_index, processed_segments>>
    /\ UNCHANGED segOthers

\* The while condition fails (line 62).
SegLoopExit ==
    /\ seg_pc = "loop"
    /\ current_index >= total_lines
    /\ seg_pc' = "extracted"
    /\ UNCHANGED <<crash_data, current_index, segment_index, collecting,
                   segment_start_index, current_boundary, segments,
                   processed_segments>>
    /\ UNCHANGED segOthers

\* Mutant of ProcessSegments: the padding of missing segments is forgotten.
ProcessSegments_NoPadding(segs) ==
    [i \in 1..Len(segs) |-> StripAll(segs[i])]

\* find_segments lines 138-146: strip every line, pad to six segments.
ProcessSegments(segs) ==
    LET stripped == [i \in 1..Len(segs) |-> StripAll(segs[i])]
        missing == NumPairs - Len(stripped)
    IN  IF missing > 0
        THEN stripped \o [i \in 1..missing |-> <<>>]
        ELSE stripped

FindSegmentsReturn ==
    /\ seg_pc = "extracted"
    /\ processed_segments' = ProcessSegments(segments)
    /\ seg_pc' = "done"
    /\ UNCHANGED <<crash_data, current_index, segment_index, collecting,
                   segment_start_index, current_boundary, segments>>
    /\ UNCHANGED segOthers

(***************************************************************************)
(* SuspectScanner.py : texts, signals and rules                            *)
(*                                                                         *)
(* A text is a sequence of characters.  A signal is a record               *)
(* [bar, modifier, string]: bar says whether the signal contains "|",      *)
(* modifier is what precedes the first "|" and string what follows it (the *)
(* whole signal when there is no "|").                                     *)
(***************************************************************************)

\* bounds of the inputs
MaxText == 3
MaxSignals == 2

\* The names of the keys ("severity | name") of suspects_stack_list.
RuleNames == <<"rule1">>

Chars == {"a", "b"}

TextsUpTo(n) == UNION { [1..m -> Chars] : m \in 0..n }

\* The strings the signals of the model look for.
SignalStrings == { <<"a">>, <<"a", "a">> }

\* The modifiers of the model: the three named ones, decimal numbers, and
\* one that is none of them.
Modifiers == {"ME-REQ", "ME-OPT", "NOT", "0", "2", "3", "XX"}

\* str.isdecimal() and int() on the modifiers of the model
IsDecimal(m) == m \in {"0", "2", "3"}
ToInt(m) == CASE m = "0" -> 0 [] m = "2" -> 2 [] m = "3" -> 3

Signals ==
    { [bar |-> FALSE, modifier |-> "", string |-> t] : t \in SignalStrings }
    \cup
    { [bar |-> TRUE, modifier |-> m, string |-> t] :
        m \in Modifiers, t \in SignalStrings }

SignalLists == UNION { [1..n -> Signals] : n \in 0..MaxSignals }

Severities == {"5", "6"}

\* Python's `s in text`
Contains(text, s) ==
    \E i \in 0..(Len(text) - Len(s)) : SubSeq(text, i + 1, i + Len(s)) = s

\* Python's text.count(s): occurrences found left to right, each search
\* resuming after the end of the previous occurrence.
RECURSIVE CountFrom(_, _, _)
CountFrom(text, s, from) ==
    LET hits == { i \in from..(Len(text) - Len(s)) :
                    SubSeq(text, i + 1, i + Len(s)) = s }
    IN  IF hits = {} THEN 0
        ELSE LET first == CHOOSE i \in hits : \A j \in hits : i <= j
             IN  1 + CountFrom(text, s, first + (IF Len(s) = 0 THEN 1 ELSE Len(s)))

Count(text, s) == CountFrom(text, s, 0)

\* Mutant of MinOccurrencesMet: strictly more than the minimum is asked for.
MinOccurrencesMet_Strict(text, s, n) == Count(text, s) > n

\* SuspectScanner.py line 154
MinOccurrencesMet(text, s, n) == Count(text, s) >= n

\* Mutant of NotConditionMet: the NOT signal never disqualifies.
NotConditionMet_Never(text, s) == FALSE

\* SuspectScanner.py line 150
NotConditionMet(text, s) == Contains(text, s)

NewMatchStatus ==
    [has_required_item |-> FALSE, error_req_found |-> FALSE,
     error_opt_found |-> FALSE, stack_found |-> FALSE]

\* SuspectScanner._process_signal: [stop, status], stop being its return
\* value and status the match_status it leaves.
ProcessSignal(signal, mainerror, callstack, status) ==
    IF ~signal.bar
    THEN [stop |-> FALSE,
          status |-> IF Contains(callstack, signal.string)
                     THEN [status EXCEPT !.stack_found = TRUE]
                     ELSE status]
    ELSE IF signal.modifier = "ME-REQ"
    THEN [stop |-> FALSE,
          status |-> [status EXCEPT
                        !.has_required_item = TRUE,
                        !.error_req_found =
                            IF Contains(mainerror, signal.string)
                            THEN TRUE ELSE @]]
    ELSE IF signal.modifier = "ME-OPT"
    THEN [stop |-> FALSE,
          status |-> IF Contains(mainerror, signal.string)
                     THEN [status EXCEPT !.error_opt_found = TRUE]
                     ELSE status]
    ELSE IF signal.modifier = "NOT"
    THEN [stop |-> NotConditionMet(callstack, signal.string),
          status |-> status]
    ELSE IF IsDecimal(signal.modifier)
    THEN [stop |-> FALSE,
          status |-> IF MinOccurrencesMet(callstack, signal.string,
                                          ToInt(signal.modifier))
                     THEN [status EXCEPT !.stack_found = TRUE]
                     ELSE status]
    ELSE [stop |-> FALSE, status |-> status]

\* Mutant of IsSuspectMatch: a stack match satisfies a rule that requires a
\* main-error match.
IsSuspectMatch_StackOverridesRequired(status) ==
    IF status.has_required_item
    THEN status.error_req_found \/ status.stack_found
    ELSE status.error_opt_found \/ status.stack_found

\* SuspectScanner._is_suspect_match
IsSuspectMatch(status) ==
    IF status.has_required_item
    THEN status.error_req_found
    ELSE status.error_opt_found \/ status.stack_found

\* The report entry _add_suspect_to_report appends: the rule's name (padded
\* to max_warn_length) and its severity.
SuspectMessage(key) == [name |-> key.name, severity |-> key.severity]

\* The databases of one rule at most, with any signal list of SignalLists.
SuspectDatabases ==
    { <<>> } \cup
    { << [severity |-> "5", name |-> RuleNames[1], signals |-> sigs] >> :
        sigs \in SignalLists }

\* The databases of several rules: the keys of a dict are distinct, and a
\* rule has one of four signal lists.
OrderedKeys ==
    { [severity |-> "5", name |-> "rule1"], [severity |-> "6", name |-> "rule2"],
      [severity |-> "5", name |-> "rule3"] }

OrderedSignalLists ==
    { << [bar |-> FALSE, modifier |-> "", string |-> <<"a">>] >>,
      << [bar |-> FALSE, modifier |-> "", string |-> <<"a", "a">>] >>,
      << [bar |-> TRUE, modifier |-> "NOT", string |-> <<"a", "a">>],
         [bar |-> FALSE, modifier |-> "", string |-> <<"a">>] >>,
      << [bar |-> TRUE, modifier |-> "ME-REQ", string |-> <<"a">>],
         [bar |-> FALSE, modifier |-> "", string |-> <<"a">>] >> }

OrderedDatabases ==
    { db \in UNION { [1..n -> [severity : Severities, name : {"rule1", "rule2", "rule3"},
                               signals : OrderedSignalLists]] :
                       n \in 0..Cardinality(OrderedKeys) } :
        /\ \A k \in 1..Len(db) :
              [severity |-> db[k].severity, name |-> db[k].name] \in OrderedKeys
        /\ \A k, m \in 1..Len(db) : k # m => db[k].name # db[m].name }

\* Mutant of AddSuspectToReport: the entry goes to the front of the report.
AddSuspectToReport_Front(report, key) == <<SuspectMessage(key)>> \o report

\* _add_suspect_to_report, lines 167-173: append_or_extend of one message
AddSuspectToReport(report, key) == Append(report, SuspectMessage(key))

\* The main errors of the model: without and with the string of a signal.
MainErrors == { <<>>, <<"a">> }

\* The state a call starts in, but for the database.
SusCall ==
    /\ crashlog_mainerror \in MainErrors
    /\ segment_callstack_intact \in TextsUpTo(MaxText)
    /\ rule_no = 0
    /\ error_key = [severity |-> "", name |-> ""]
    /\ signal_list = <<>>
    /\ signal_no = 1
    /\ match_status = NewMatchStatus
    /\ autoscan_report = <<>>
    /\ any_suspect_found = FALSE
    /\ sus_pc = "rules"

SusOrderInit ==
    /\ suspects_stack_list \in OrderedDatabases
    /\ SusCall

SusInit ==
    /\ suspects_stack_list \in SuspectDatabases
    /\ SusCall

SusIdle ==
    /\ suspects_stack_list = <<>>
    /\ crashlog_mainerror = <<>>
    /\ segment_callstack_intact = <<>>
    /\ rule_no = 0
    /\ error_key = [severity |-> "", name |-> ""]
    /\ signal_list = <<>>
    /\ signal_no = 1
    /\ match_status = NewMatchStatus
    /\ autoscan_report = <<>>
    /\ any_suspect_found = FALSE
    /\ sus_pc = "idle"

\* Lines 85-98: the loop takes the next rule of suspects_stack_list.  The
\* keys of the database are distinct (it is a dict).
SusNextRule ==
    /\ sus_pc = "rules"
    /\ rule_no < Len(suspects_stack_list)
    /\ LET rule == suspects_stack_list[rule_no + 1]
       IN  /\ error_key' = [severity |-> rule.severity, name |-> rule.name]
           /\ signal_list' = rule.signals
    /\ rule_no' = rule_no + 1
    /\ signal_no' = 1
    /\ match_status' = NewMatchStatus
    /\ sus_pc' = "signals"
    /\ UNCHANGED <<suspects_stack_list, crashlog_mainerror, segment_callstack_intact,
                   autoscan_report, any_suspect_found>>
    /\ UNCHANGED susOthers

\* Lines 99-107: one signal of the rule; a met NOT condition skips the rule.
SusProcessSignal ==
    /\ sus_pc = "signals"
    /\ signal_no <= Len(signal_list)
    /\ LET r == ProcessSignal(signal_list[signal_no], crashlog_mainerror,
                              segment_callstack_intact, match_status)
       IN  /\ match_status' = r.status
           /\ IF r.stop
              THEN sus_pc' = "rules" /\ UNCHANGED signal_no
              ELSE sus_pc' = "signals" /\ signal_no' = signal_no + 1
    /\ UNCHANGED <<suspects_stack_list, crashlog_mainerror, segment_callstack_intact, rule_no,
                   error_key, signal_list, autoscan_report, any_suspect_found>>
    /\ UNCHANGED susOthers

\* Lines 109-113: all signals processed, the verdict.
SusVerdict ==
    /\ sus_pc = "signals"
    /\ signal_no > Len(signal_list)
    /\ IF IsSuspectMatch(match_status)
       THEN /\ autoscan_report' = AddSuspectToReport(autoscan_report, error_key)
            /\ any_suspect_found' = TRUE
       ELSE UNCHANGED <<autoscan_report, any_suspect_found>>
    /\ sus_pc' = "rules"
    /\ UNCHANGED <<suspects_stack_list, crashlog_mainerror, segment_callstack_intact, rule_no,
                   error_key, signal_list, signal_no, match_status>>
    /\ UNCHANGED susOthers

\* Line 115: the database is exhausted.
SusReturn ==
    /\ sus_pc = "rules"
    /\ rule_no = Len(suspects_stack_list)
    /\ sus_pc' = "returned"
    /\ UNCHANGED <<suspects_stack_list, crashlog_mainerror, segment_callstack_intact, rule_no,
                   error_key, signal_list, signal_no, match_status,
                   autoscan_report, any_suspect_found>>
    /\ UNCHANGED susOthers

(***************************************************************************)
(* FCXModeHandler.py : the session validation cache                        *)
(*                                                                         *)
(* Each caller is a thread calling check_fcx_mode on a handler; the steps  *)
(* of the method that touch shared state are separate actions.             *)
(***************************************************************************)

\* number of concurrent callers
NumThreads == 3

Threads == 1..NumThreads

\* What main_combined_result() and game_combined_result() may return.
MainResults == {"main files ok", "main files warning"}
GameResults == {"game files ok", "game files warning"}

\* handler.main_files_check when FCX mode is disabled (line 60)
DisabledMessage == "FCX Mode is disabled, skipping game files check"

FreeLock == [owner |-> 0, count |-> 0]

\* Mutant of LockAvailable: the lock does not exclude other threads.
LockAvailable_NoExclusion(lock, t) == TRUE

\* threading.RLock: free, or already held by the acquiring thread.
LockAvailable(lock, t) == lock.owner = 0 \/ lock.owner = t

AcquireLock(lock, t) == [owner |-> t, count |-> lock.count + 1]

ReleaseLock(lock) ==
    IF lock.count = 1 THEN FreeLock
    ELSE [owner |-> lock.owner, count |-> lock.count - 1]

\* The class attributes as the class statement leaves them (lines 19-22).
FcxClassInit ==
    /\ fcx_lock = FreeLock
    /\ fcx_checks_run = FALSE
    /\ main_files_result = ""
    /\ game_files_result = ""
    /\ main_calls = <<>>
    /\ game_calls = <<>>

\* FCXModeHandler.__init__ for each caller's handler (lines 31-33).
FcxInit ==
    /\ FcxClassInit
    /\ fcx_mode \in [Threads -> BOOLEAN]
    /\ main_files_check = [t \in Threads |-> ""]
    /\ game_files_check = [t \in Threads |-> ""]
    /\ fcx_pc = [t \in Threads |-> "call"]

FcxIdle ==
    /\ FcxClassInit
    /\ fcx_mode = <<>>
    /\ main_files_check = <<>>
    /\ game_files_check = <<>>
    /\ fcx_pc = <<>>

\* Mutant of FcxModeOn: every handler goes for the checks.
FcxModeOn_Always(mode) == TRUE

\* line 42: if self.fcx_mode
FcxModeOn(mode) == mode

\* Line 42, FCX mode disabled: lines 60-61.
FcxDisabled(t) ==
    /\ fcx_pc[t] = "call"
    /\ ~FcxModeOn(fcx_mode[t])
    /\ main_files_check' = [main_files_check EXCEPT ![t] = DisabledMessage]
    /\ game_files_check' = [game_files_check EXCEPT ![t] = ""]
    /\ fcx_pc' = [fcx_pc EXCEPT ![t] = "done"]
    /\ UNCHANGED <<fcxClassVars, fcx_mode>>
    /\ UNCHANGED fcxOthers

\* Lines 42-48: FCX mode enabled, the lock is taken.
FcxAcquire(t) ==
    /\ fcx_pc[t] = "call"
    /\ FcxModeOn(fcx_mode[t])
    /\ LockAvailable(fcx_lock, t)
    /\ fcx_lock' = AcquireLock(fcx_lock, t)
    /\ fcx_pc' = [fcx_pc EXCEPT ![t] = "test"]
    /\ UNCHANGED <<fcx_checks_run, main_files_result, game_files_result,
                   main_calls, game_calls, fcx_mode, main_files_check,
                   game_files_check>>
    /\ UNCHANGED fcxOthers

\* Line 50: have the checks already run?
FcxTest(t) ==
    /\ fcx_pc[t] = "test"
    /\ fcx_pc' = [fcx_pc EXCEPT ![t] =
                    IF fcx_checks_run THEN "release" ELSE "main"]
    /\ UNCHANGED <<fcxClassVars, fcx_mode, main_files_check,
                   game_files_check>>
    /\ UNCHANGED fcxOthers

\* Line 52
FcxComputeMain(t) ==
    /\ fcx_pc[t] = "main"
    /\ \E r \in MainResults :
          /\ main_files_result' = r
          /\ main_calls' = Append(main_calls, r)
    /\ fcx_pc' = [fcx_pc EXCEPT ![t] = "game"]
    /\ UNCHANGED <<fcx_lock, fcx_checks_run, game_files_result, game_calls,
                   fcx_mode, main_files_check, game_files_check>>
    /\ UNCHANGED fcxOthers

\* Line 53
FcxComputeGame(t) ==
    /\ fcx_pc[t] = "game"
    /\ \E r \in GameResults :
          /\ game_files_result' = r
          /\ game_calls' = Append(game_calls, r)
    /\ fcx_pc' = [fcx_pc EXCEPT ![t] = "flag"]
    /\ UNCHANGED <<fcx_lock, fcx_checks_run, main_files_result, main_calls,
                   fcx_mode, main_files_check, game_files_check>>
    /\ UNCHANGED fcxOthers

\* Line 54
FcxSetChecksRun(t) ==
    /\ fcx_pc[t] = "flag"
    /\ fcx_checks_run' = TRUE
    /\ fcx_pc' = [fcx_pc EXCEPT ![t] = "release"]
    /\ UNCHANGED <<fcx_lock, main_files_result, game_files_result,
                   main_calls, game_calls, fcx_mode, main_files_check,
                   game_files_check>>
    /\ UNCHANGED fcxOthers

\* End of the with block (line 48).
FcxRelease(t) ==
    /\ fcx_pc[t] = "release"
    /\ fcx_lock' = ReleaseLock(fcx_lock)
    /\ fcx_pc' = [fcx_pc EXCEPT ![t] = "read_main"]
    /\ UNCHANGED <<fcx_checks_run, main_files_result, game_files_result,
                   main_calls, game_calls, fcx_mode, main_files_check,
                   game_files_check>>
    /\ UNCHANGED fcxOthers

\* Line 57, outside the lock
FcxReadMain(t) ==
    /\ fcx_pc[t] = "read_main"
    /\ main_files_check' = [main_files_check EXCEPT ![t] = main_files_result]
    /\ fcx_pc' = [fcx_pc EXCEPT ![t] = "read_game"]
    /\ UNCHANGED <<fcxClassVars, fcx_mode, game_files_check>>
    /\ UNCHANGED fcxOthers

\* Line 58, outside the lock
FcxReadGame(t) ==
    /\ fcx_pc[t] = "read_game"
    /\ game_files_check' = [game_files_check EXCEPT ![t] = game_files_result]
    /\ fcx_pc' = [fcx_pc EXCEPT ![t] = "done"]
    /\ UNCHANGED <<fcxClassVars, fcx_mode, main_files_check>>
    /\ UNCHANGED fcxOthers

(***************************************************************************)
(* CLASSIC_ScanLogs.py : the batch runner                                  *)
(*                                                                         *)
(* The main thread runs crashlogs_scan, batch after batch; every submitted *)
(* file has a future whose task runs on the pool.  A task is one step: the *)
(* tasks share nothing but the session cache, which they use under its     *)
(* lock, so the size of the pool (line 135) changes no outcome.  The       *)
(* scanner's orchestrator owns one FCXModeHandler, handler 0 of fcx_mode / *)
(* main_files_check / game_files_check.  The computations of a batch are   *)
(* counted in fcx_trace; main_calls and game_calls log the cache run alone.*)
(***************************************************************************)

\* bound of the batches
NumFiles == 2

Files == 1..NumFiles

\* crashlog_file.name
FileName(f) == "crash-" \o ToString(f) \o ".log"

\* Path.cwd().glob("crash-*.txt") (line 172) finds nothing or this file
StrayNames == {"crash-old.txt"}

ZeroStats == [scanned |-> 0, incomplete |-> 0, failed |-> 0]

\* The per-file counters a task may return.
LocalStats ==
    { [scanned |-> 1, incomplete |-> 0, failed |-> 0],
      [scanned |-> 0, incomplete |-> 1, failed |-> 0],
      [scanned |-> 0, incomplete |-> 0, failed |-> 1] }

\* What a future holds once its task is over: the returned tuple
\* (trigger_scan_failed, local_stats; the path and the report go with the
\* file), or the error the task raised.
Outcomes ==
    { [raised |-> TRUE, trigger_scan_failed |-> FALSE, local_stats |-> ZeroStats] }
    \cup
    { [raised |-> FALSE, trigger_scan_failed |-> b, local_stats |-> st] :
        b \in BOOLEAN, st \in LocalStats }

NoOutcome == [raised |-> FALSE, trigger_scan_failed |-> FALSE,
              local_stats |-> ZeroStats]

\* What the file system does to write_report_to_file: everything works, the
\* report cannot be written, or the rename of move_unsolved_logs fails.
IoOutcomes == {"ok", "write_error", "move_error"}

\* The handler's check_fcx_mode run to completion by one thread while no
\* other thread touches the cache (FCXModeHandler.py lines 42-61); rm and rg
\* are what the two computations return if they run.
CheckFcxModeAlone(enabled, rm, rg) ==
    IF enabled
    THEN /\ IF fcx_checks_run
            THEN UNCHANGED <<fcx_checks_run, main_files_result,
                             game_files_result>>
            ELSE /\ main_files_result' = rm
                 /\ game_files_result' = rg
                 /\ fcx_checks_run' = TRUE
         /\ main_files_check' = [h \in {0} |-> main_files_result']
         /\ game_files_check' = [h \in {0} |-> game_files_result']
    ELSE /\ UNCHANGED <<fcx_checks_run, main_files_result, game_files_result>>
         /\ main_files_check' = [h \in {0} |-> DisabledMessage]
         /\ game_files_check' = [h \in {0} |-> ""]

\* The computations a call of check_fcx_mode runs: one if the handler is
\* enabled and the cache holds nothing (lines 50-54).
Computes(enabled) == IF enabled /\ ~fcx_checks_run THEN 1 ELSE 0

NoTrace == [early_checks |-> 0, resets |-> 0, computes |-> 0]

NoSettings == [fcx_mode |-> FALSE, move_unsolved_logs |-> FALSE]

\* no notice issued (line 173 false), no terminal message yet
NoNotice == [issued |-> FALSE, failed |-> <<>>, invalid |-> {}]
NoMessage == [kind |-> "none", stats |-> ZeroStats, then |-> <<>>]

BatchInit ==
    /\ batch_pc = "start"
    /\ settings = NoSettings
    /\ crashlog_list = {}
    /\ task = <<>>
    /\ consumed = <<>>
    /\ crashlog_stats = ZeroStats
    /\ scan_failed_list = <<>>
    /\ log_place = <<>>
    /\ report_place = <<>>
    /\ stray_files = {}
    /\ notice = NoNotice
    /\ terminal_message = NoMessage
    /\ fcx_trace = NoTrace

BatchIdle ==
    /\ batch_pc = "idle"
    /\ settings = NoSettings
    /\ crashlog_list = {}
    /\ task = <<>>
    /\ consumed = <<>>
    /\ crashlog_stats = ZeroStats
    /\ scan_failed_list = <<>>
    /\ log_place = <<>>
    /\ report_place = <<>>
    /\ stray_files = {}
    /\ notice = NoNotice
    /\ terminal_message = NoMessage
    /\ fcx_trace = NoTrace

\* Line 128, ClassicScanLogs.__init__ (lines 42-75): the file list, the
\* settings, a fresh orchestrator and handler, zeroed statistics, and the
\* FCX check when FCX mode is on (lines 74-75).
BatchConstructScanner ==
    /\ batch_pc = "start"
    /\ \E n \in 0..NumFiles, fcx \in BOOLEAN, mv \in BOOLEAN,
          stray \in SUBSET StrayNames :
          /\ crashlog_list' = 1..n
          /\ settings' = [fcx_mode |-> fcx, move_unsolved_logs |-> mv]
          /\ stray_files' = stray
          /\ task' = [f \in 1..n |-> [state |-> "unsubmitted",
                                      outcome |-> NoOutcome]]
          /\ consumed' = [f \in 1..n |-> "no"]
          /\ log_place' = [f \in 1..n |-> "logs"]
          /\ report_place' = [f \in 1..n |-> "none"]
          /\ fcx_mode' = [h \in {0} |-> fcx]
          /\ fcx_pc' = [h \in {0} |-> "idle"]
          /\ IF fcx
             THEN /\ \E rm \in MainResults, rg \in GameResults :
                        CheckFcxModeAlone(TRUE, rm, rg)
                  /\ fcx_trace' = [early_checks |-> 1, resets |-> 0,
                                   computes |-> Computes(TRUE)]
             ELSE /\ UNCHANGED <<fcx_checks_run, main_files_result,
                                 game_files_result>>
                  /\ main_files_check' = [h \in {0} |-> ""]
                  /\ game_files_check' = [h \in {0} |-> ""]
                  /\ fcx_trace' = NoTrace
    /\ crashlog_stats' = ZeroStats
    /\ scan_failed_list' = <<>>
    /\ notice' = NoNotice
    /\ terminal_message' = NoMessage
    /\ batch_pc' = "reset"
    /\ UNCHANGED <<fcx_lock, main_calls, game_calls>>
    /\ UNCHANGED batchOthers

\* FCXModeHandler.reset_fcx_checks (lines 63-69), called at line 129.
BatchResetFcxChecks ==
    /\ batch_pc = "reset"
    /\ LockAvailable(fcx_lock, 0)
    /\ fcx_checks_run' = FALSE
    /\ main_files_result' = ""
    /\ game_files_result' = ""
    /\ fcx_trace' = [fcx_trace EXCEPT !.resets = @ + 1]
    /\ batch_pc' = "submit"
    /\ UNCHANGED <<fcx_lock, main_calls, game_calls, fcxCallerVars>>
    /\ UNCHANGED <<settings, crashlog_list, task, consumed,
                   crashlog_stats, scan_failed_list, log_place, report_place,
                   stray_files, notice, terminal_message>>
    /\ UNCHANGED batchOthers

\* Lines 140-144: one future per file.
BatchSubmitAll ==
    /\ batch_pc = "submit"
    /\ task' = [f \in crashlog_list |-> [state |-> "queued",
                                         outcome |-> NoOutcome]]
    /\ batch_pc' = "consume"
    /\ UNCHANGED <<settings, crashlog_list, consumed,
                   crashlog_stats, scan_failed_list, log_place, report_place,
                   stray_files, notice, terminal_message, fcx_trace>>
    /\ UNCHANGED fcxVars
    /\ UNCHANGED batchOthers

\* ScanOrchestrator.process_crash_log: the task asks the orchestrator's
\* handler for the integrity check.
OrchestratorCheckFcx ==
    /\ \E rm \in MainResults, rg \in GameResults :
          CheckFcxModeAlone(settings.fcx_mode, rm, rg)
    /\ fcx_trace' = [fcx_trace EXCEPT
                        !.computes = @ + Computes(settings.fcx_mode)]

\* process_crashlog (lines 77-87): the task runs the orchestrator on the
\* file and returns its tuple, or raises.
TaskRun(f) ==
    /\ f \in crashlog_list
    /\ task[f].state = "queued"
    /\ OrchestratorCheckFcx
    /\ \E o \in Outcomes :
          task' = [task EXCEPT ![f] = [state |-> "finished", outcome |-> o]]
    /\ UNCHANGED <<fcx_lock, fcx_mode, fcx_pc, main_calls, game_calls>>
    /\ UNCHANGED <<batch_pc, settings, crashlog_list, consumed,
                   crashlog_stats, scan_failed_list, log_place, report_place,
                   stray_files, notice, terminal_message>>
    /\ UNCHANGED batchOthers

\* Mutant of MergeStats: the local counters overwrite the totals.
MergeStats_Overwrite(stats, local) == local

\* Lines 152-153
MergeStats(stats, local) ==
    [scanned |-> stats.scanned + local.scanned,
     incomplete |-> stats.incomplete + local.incomplete,
     failed |-> stats.failed + local.failed]

\* Mutant of CountFailure: the failure is not counted.
CountFailure_Forgotten(stats) == stats

\* Line 168
CountFailure(stats) == [stats EXCEPT !.failed = @ + 1]

\* Lines 147-169: as_completed yields a finished future; its result is
\* merged, its report written (write_report_to_file, lines 90-107, with
\* move_unsolved_logs, lines 110-119) and its failure noted, or the error is
\* caught and counted.
BatchConsume(f) ==
    /\ batch_pc = "consume"
    /\ f \in crashlog_list
    /\ task[f].state = "finished"
    /\ consumed[f] = "no"
    /\ LET o == task[f].outcome
           moving == o.trigger_scan_failed /\ settings.move_unsolved_logs
       IN  IF o.raised
           THEN \* future.result() raises: lines 165-169
                /\ crashlog_stats' = CountFailure(crashlog_stats)
                /\ consumed' = [consumed EXCEPT ![f] = "task_error"]
                /\ UNCHANGED <<scan_failed_list, log_place, report_place>>
           ELSE \E io \in IoOutcomes, log_exists \in BOOLEAN :
                  /\ io = "move_error" => moving
                  /\ log_exists \/ (moving /\ io # "write_error")
                  /\ IF io = "write_error"
                     THEN \* line 101 raises
                          /\ crashlog_stats' = CountFailure(
                                 MergeStats(crashlog_stats, o.local_stats))
                          /\ consumed' = [consumed EXCEPT ![f] = "write_error"]
                          /\ UNCHANGED <<scan_failed_list, log_place,
                                         report_place>>
                     ELSE IF io = "move_error"
                     THEN \* line 117 or 119 raises
                          /\ crashlog_stats' = CountFailure(
                                 MergeStats(crashlog_stats, o.local_stats))
                          /\ consumed' = [consumed EXCEPT ![f] = "move_error"]
                          /\ report_place' = [report_place EXCEPT ![f] = "logs"]
                          /\ log_place' = [log_place EXCEPT ![f] =
                                 IF log_exists THEN "logs" ELSE "missing"]
                          /\ UNCHANGED scan_failed_list
                     ELSE /\ crashlog_stats' =
                                 MergeStats(crashlog_stats, o.local_stats)
                          /\ consumed' = [consumed EXCEPT ![f] = "ok"]
                          /\ IF moving
                             THEN IF log_exists
                                  THEN \* line 117: the log takes the
                                       \* report's name in the backup folder
                                       /\ log_place' = [log_place EXCEPT
                                            ![f] = "backup as report"]
                                       /\ report_place' = [report_place
                                            EXCEPT ![f] = "logs"]
                                  ELSE \* line 119
                                       /\ log_place' = [log_place EXCEPT
                                            ![f] = "missing"]
                                       /\ report_place' = [report_place
                                            EXCEPT ![f] = "backup"]
                             ELSE /\ report_place' = [report_place EXCEPT
                                       ![f] = "logs"]
                                  /\ UNCHANGED log_place
                          /\ scan_failed_list' =
                                 IF o.trigger_scan_failed
                                 THEN Append(scan_failed_list, FileName(f))
                                 ELSE scan_failed_list
    /\ UNCHANGED <<batch_pc, settings, crashlog_list, task,
                   stray_files, notice, terminal_message, fcx_trace>>
    /\ UNCHANGED fcxVars
    /\ UNCHANGED batchOthers

\* Lines 172-184: every future has been yielded; the combined notice.
BatchNotice ==
    /\ batch_pc = "consume"
    /\ \A f \in crashlog_list : consumed[f] # "no"
    /\ notice' = IF scan_failed_list # <<>> \/ stray_files # {}
                 THEN [issued |-> TRUE, failed |-> scan_failed_list,
                       invalid |-> stray_files]
                 ELSE NoNotice
    /\ batch_pc' = "terminal"
    /\ UNCHANGED <<settings, crashlog_list, task, consumed,
                   crashlog_stats, scan_failed_list, log_place, report_place,
                   stray_files, terminal_message, fcx_trace>>
    /\ UNCHANGED fcxVars
    /\ UNCHANGED batchOthers

\* GlobalRegistry.get_game() (line 203)
Games == {"Fallout4", "Skyrim"}

\* lines 200-205: the CLI-only messages that follow the completion message
FollowUps(game) ==
    IF game = "Fallout4" THEN <<"hint", "separator", "autoscan_text">>
    ELSE <<"hint">>

\* Mutant of NothingToScan: a failed log counts as something scanned.
NothingToScan_NoFailures(stats) ==
    stats.scanned = 0 /\ stats.incomplete = 0 /\ stats.failed = 0

\* line 189
NothingToScan(stats) == stats.scanned = 0 /\ stats.incomplete = 0

\* Lines 189-205: the terminal message.
BatchTerminalMessage ==
    /\ batch_pc = "terminal"
    /\ \E game \in Games :
          terminal_message' =
             IF NothingToScan(crashlog_stats)
             THEN [kind |-> "nothing to scan", stats |-> ZeroStats, then |-> <<>>]
             ELSE [kind |-> "scan complete", stats |-> crashlog_stats,
                   then |-> FollowUps(game)]
    /\ batch_pc' = "end"
    /\ UNCHANGED <<settings, crashlog_list, task, consumed,
                   crashlog_stats, scan_failed_list, log_place, report_place,
                   stray_files, notice, fcx_trace>>
    /\ UNCHANGED fcxVars
    /\ UNCHANGED batchOthers

\* crashlogs_scan returns (line 205): the scanner and the locals of the call
\* are gone, the class-level session cache stays; the next call may follow.
BatchReturn ==
    /\ batch_pc = "end"
    /\ batch_pc' = "start"
    /\ settings' = NoSettings
    /\ crashlog_list' = {}
    /\ task' = <<>>
    /\ consumed' = <<>>
    /\ crashlog_stats' = ZeroStats
    /\ scan_failed_list' = <<>>
    /\ log_place' = <<>>
    /\ report_place' = <<>>
    /\ stray_files' = {}
    /\ notice' = NoNotice
    /\ terminal_message' = NoMessage
    /\ fcx_trace' = NoTrace
    /\ fcx_mode' = <<>>
    /\ fcx_pc' = <<>>
    /\ main_files_check' = <<>>
    /\ game_files_check' = <<>>
    /\ UNCHANGED fcxClassVars
    /\ UNCHANGED batchOthers

(***************************************************************************)
(* Characters and letter case (str.upper, str.lower, re.IGNORECASE)        *)
(***************************************************************************)

LowerLetters == <<"a", "b", "c", "d", "e", "f", "g", "h", "i", "j", "k", "l", "m", "n", "o", "p", "q", "r", "s", "t", "u", "v", "w", "x", "y", "z">>
UpperLetters == <<"A", "B", "C", "D", "E", "F", "G", "H", "I", "J", "K", "L", "M", "N", "O", "P", "Q", "R", "S", "T", "U", "V", "W", "X", "Y", "Z">>

LetterIndex(letters, c) == CHOOSE k \in 1..Len(letters) : letters[k] = c

IsIn(letters, c) == \E k \in 1..Len(letters) : letters[k] = c

\* str.upper and str.lower on one character
Upper(c) == IF IsIn(LowerLetters, c)
            THEN UpperLetters[LetterIndex(LowerLetters, c)] ELSE c
Lower(c) == IF IsIn(UpperLetters, c)
            THEN LowerLetters[LetterIndex(UpperLetters, c)] ELSE c

UpperAll(s) == [k \in 1..Len(s) |-> Upper(s[k])]
LowerAll(s) == [k \in 1..Len(s) |-> Lower(s[k])]

\* \s of the pattern, on the characters of the model
IsSpace(c) == c \in {" ", "\t", "\n", "\r"}

\* str.startswith at offset 0
TextStartsWith(s, prefix) ==
    /\ Len(s) >= Len(prefix)
    /\ SubSeq(s, 1, Len(prefix)) = prefix

(***************************************************************************)
(* FormIDAnalyzer.py : extract_formids                                     *)
(*                                                                         *)
(* A line is a sequence of characters.  The lines of the model are put     *)
(* together from a lead, a label, a gap, a prefix and digits; the pattern  *)
(* of line 42 is matched on the characters, left to right.                 *)
(***************************************************************************)

\* bound of the callstack
MaxFormLines == 2

\* the literals of the pattern (line 42) and of the appended text (line 67)
FormIdLabel == <<"F", "o", "r", "m", " ", "I", "D", ":">>
HexPrefix == <<"0", "x">>
FormIdText == <<"F", "o", "r", "m", " ", "I", "D", ":", " ">>
HexDigits == <<"0", "1", "2", "3", "4", "5", "6", "7", "8", "9", "A", "B", "C", "D", "E", "F">>

\* length of the captured group, {8} at line 42
FormIdDigits == 8

BaseShape == [lead |-> <<"\t">>, label |-> FormIdLabel, gap |-> <<" ">>,
              prefix |-> HexPrefix, digits |-> <<"0", "0", "0", "1", "a", "3", "3", "2">>]

FormLineShapes ==
    { [BaseShape EXCEPT !.digits = d] :
        d \in { <<"0", "0", "0", "1", "a", "3", "3", "2">>, <<"F", "F", "0", "0", "0", "8", "0", "0">>, <<"f", "f", "0", "0", "0", "8", "0", "0">>, <<"0", "F", "F", "0", "0", "0", "0", "1">>, <<"0", "0", "0", "1", "A", "3", "3">>,
                <<"0", "0", "0", "1", "G", "3", "3", "2">>, <<"0", "0", "0", "1", "A", "3", "3", "2", "9">>, <<"F", "E", "0", "0", "1", "8", "0", "1">>, <<"f", "F", "0", "0", "0", "8", "0", "0">> } }
    \cup { [BaseShape EXCEPT !.label = l] :
        l \in { <<"f", "o", "r", "m", " ", "i", "d", ":">>, <<"F", "o", "r", "m", "I", "D", ":">>, <<"F", "o", "r", "m", " ", "I", "D">> } }
    \cup { [BaseShape EXCEPT !.lead = l] : l \in { <<>>, <<"x">> } }
    \cup { [BaseShape EXCEPT !.gap = <<>>] }
    \cup { [BaseShape EXCEPT !.prefix = x] : x \in { <<"0", "X">>, <<>> } }

FormLine(sh) == sh.lead \o sh.label \o sh.gap \o sh.prefix \o sh.digits

FormLines == { FormLine(sh) : sh \in FormLineShapes }

RECURSIVE SeqsUpTo(_, _)
SeqsUpTo(S, n) ==
    IF n = 0 THEN { <<>> }
    ELSE SeqsUpTo(S, n - 1) \cup
         { Append(q, x) : q \in { r \in SeqsUpTo(S, n - 1) : Len(r) = n - 1 },
                          x \in S }

\* \s* at position i (1-based): the first position at or after i that holds
\* no whitespace
RECURSIVE SkipSpace(_, _)
SkipSpace(line, i) ==
    IF i <= Len(line) /\ IsSpace(line[i]) THEN SkipSpace(line, i + 1) ELSE i

\* a literal of the pattern at position i, letter case ignored
MatchLiteral(line, i, lit) ==
    /\ Len(line) >= i + Len(lit) - 1
    /\ \A k \in 1..Len(lit) : Upper(line[i + k - 1]) = Upper(lit[k])

IsHexDigit(c) == IsIn(HexDigits, Upper(c))

\* formid_pattern.search(line), lines 41-44 and 62: [matched, group]
FormIdSearch(line) ==
    LET i == SkipSpace(line, 1)
        j == SkipSpace(line, i + Len(FormIdLabel))
        d == j + Len(HexPrefix)
        ok == /\ MatchLiteral(line, i, FormIdLabel)
              /\ MatchLiteral(line, j, HexPrefix)
              /\ Len(line) >= d + FormIdDigits - 1
              /\ \A k \in d..(d + FormIdDigits - 1) : IsHexDigit(line[k])
    IN  [matched |-> ok,
         group |-> IF ok THEN SubSeq(line, d, d + FormIdDigits - 1) ELSE <<>>]

\* Mutant of SkippedFormId: the FF test is made on the digits as written.
SkippedFormId_CaseSensitive(group) == TextStartsWith(group, <<"F", "F">>)

\* lines 64-66: formid_id.startswith("FF") on the uppercased group
SkippedFormId(group) == TextStartsWith(UpperAll(group), <<"F", "F">>)

FidInit ==
    /\ segment_callstack \in SeqsUpTo(FormLines, MaxFormLines)
    /\ formid_line_no = 0
    /\ formids_matches = <<>>
    /\ fid_pc = "loop"

FidIdle ==
    /\ segment_callstack = <<>>
    /\ formid_line_no = 0
    /\ formids_matches = <<>>
    /\ fid_pc = "idle"

\* lines 61-67: one iteration of the loop
FidLine ==
    /\ fid_pc = "loop"
    /\ formid_line_no < Len(segment_callstack)
    /\ LET m == FormIdSearch(segment_callstack[formid_line_no + 1])
       IN  formids_matches' =
              IF m.matched /\ ~SkippedFormId(m.group)
              THEN Append(formids_matches, FormIdText \o UpperAll(m.group))
              ELSE formids_matches
    /\ formid_line_no' = formid_line_no + 1
    /\ UNCHANGED <<segment_callstack, fid_pc>>
    /\ UNCHANGED fidOthers

\* lines 58-59 and 69
FidReturn ==
    /\ fid_pc = "loop"
    /\ formid_line_no = Len(segment_callstack)
    /\ fid_pc' = "returned"
    /\ UNCHANGED <<segment_callstack, formid_line_no, formids_matches>>
    /\ UNCHANGED fidOthers

(***************************************************************************)
(* PluginAnalyzer.py : loadorder_scan_loadorder_txt                        *)
(*                                                                         *)
(* A dict is the sequence of its items [name, status] in insertion order.  *)
(***************************************************************************)

\* bound of loadorder.txt: lines after the first
MaxLoadOrderLines == 2

\* str.strip()
StripChars(s) ==
    LET keep == { k \in 1..Len(s) : ~IsSpace(s[k]) }
    IN  IF keep = {} THEN <<>>
        ELSE SubSeq(s, CHOOSE a \in keep : \A b \in keep : a <= b,
                       CHOOSE a \in keep : \A b \in keep : a >= b)

\* key in dict
HasKey(dict, key) == \E k \in 1..Len(dict) : dict[k].name = key

\* line 60
loadorder_origin == "LO"

\* lines 55-59 and 79
loadorder_messages ==
    << "LOADORDER.TXT FILE FOUND", "CLASSIC will now ignore plugins in all crash logs",
       "To disable this functionality, simply remove loadorder.txt" >>
loadorder_error_msg == "Error reading loadorder.txt"

\* the lines loadorder.txt may hold after its first line
LoadOrderEntryLines ==
    { <<"A", "\n">>, <<"a", "\n">>, <<"B", "\n">>, <<" ", "A", "\n">>,
      <<"A", " ", "\n">>, <<"\n">>, <<" ", "\n">>, <<"A", " ", "B", "\n">>,
      <<"A">> }

\* its first line
LoadOrderHeaderLines == { <<"#", "\n">>, <<"A", "\n">> }

\* a file that cannot be opened, files whose reading fails, and files that
\* are read
LoadOrderFiles ==
    { [readable |-> FALSE, lines |-> <<>>], [readable |-> TRUE, lines |-> <<>>] }
    \cup
    { [readable |-> FALSE, lines |-> <<h, <<"A", "\n">> >>] :
        h \in LoadOrderHeaderLines }
    \cup
    { [readable |-> TRUE, lines |-> <<h>> \o rest] :
        h \in LoadOrderHeaderLines,
        rest \in SeqsUpTo(LoadOrderEntryLines, MaxLoadOrderLines) }

\* Mutant of LoadOrderEntries: the first line is an entry like the others.
LoadOrderEntries_WithHeader(data) == data

\* lines 72-73: loadorder_data[1:], nothing unless there is more than one line
LoadOrderEntries(data) == IF Len(data) > 1 THEN SliceFrom(data, 1) ELSE <<>>

LoInit ==
    /\ loadorder_file \in LoadOrderFiles
    /\ loadorder_data = <<>>
    /\ loadorder_index = 0
    /\ loadorder_plugins = <<>>
    /\ plugins_loaded = FALSE
    /\ loadorder_report = <<>>
    /\ lo_pc = "open"

LoIdle ==
    /\ loadorder_file = [readable |-> FALSE, lines |-> <<>>]
    /\ loadorder_data = <<>>
    /\ loadorder_index = 0
    /\ loadorder_plugins = <<>>
    /\ plugins_loaded = FALSE
    /\ loadorder_report = <<>>
    /\ lo_pc = "idle"

\* Mutant of OSErrorRaised: the lines come through whatever the file.
OSErrorRaised_Never(file) == FALSE

\* lines 68-69 and 77: open() or readlines() raises OSError
OSErrorRaised(file) == ~file.readable

\* lines 63-69 and 77-80: the messages, then the file is read, or opening or
\* reading it raises OSError and the error line is appended
LoOpenRead ==
    /\ lo_pc = "open"
    /\ IF ~OSErrorRaised(loadorder_file)
       THEN /\ loadorder_data' = loadorder_file.lines
            /\ loadorder_report' = loadorder_messages
            /\ lo_pc' = "loop"
       ELSE /\ loadorder_data' = <<>>
            /\ loadorder_report' = Append(loadorder_messages, loadorder_error_msg)
            /\ lo_pc' = "check"
    /\ UNCHANGED <<loadorder_file, loadorder_index, loadorder_plugins,
                   plugins_loaded>>
    /\ UNCHANGED loOthers

\* lines 73-76: one entry
LoEntry ==
    /\ lo_pc = "loop"
    /\ loadorder_index < Len(LoadOrderEntries(loadorder_data))
    /\ LET plugin_entry ==
              StripChars(LoadOrderEntries(loadorder_data)[loadorder_index + 1])
       IN  loadorder_plugins' =
              IF plugin_entry # <<>> /\ ~HasKey(loadorder_plugins, plugin_entry)
              THEN Append(loadorder_plugins,
                          [name |-> plugin_entry, status |-> loadorder_origin])
              ELSE loadorder_plugins
    /\ loadorder_index' = loadorder_index + 1
    /\ UNCHANGED <<loadorder_file, loadorder_data, plugins_loaded,
                   loadorder_report, lo_pc>>
    /\ UNCHANGED loOthers

\* the loop is over
LoLoopExit ==
    /\ lo_pc = "loop"
    /\ loadorder_index = Len(LoadOrderEntries(loadorder_data))
    /\ lo_pc' = "check"
    /\ UNCHANGED <<loadorder_file, loadorder_data, loadorder_index,
                   loadorder_plugins, plugins_loaded, loadorder_report>>
    /\ UNCHANGED loOthers

\* lines 83-85
LoReturn ==
    /\ lo_pc = "check"
    /\ plugins_loaded' = (loadorder_plugins # <<>>)
    /\ lo_pc' = "returned"
    /\ UNCHANGED <<loadorder_file, loadorder_data, loadorder_index,
                   loadorder_plugins, loadorder_report>>
    /\ UNCHANGED loOthers

(***************************************************************************)
(* PluginAnalyzer.py : plugin_match                                        *)
(***************************************************************************)

\* bound of the callstack
MaxStackLines == 2

\* the characters of the model in code point order, for str comparison
CodePoints ==
    <<"\t", "\n", "\r", " ", "#", "+", ".",
       "0", "1", "2", "3", "4", "5", "6", "7", "8", "9", ":",
       "A", "B", "C", "D", "E", "F", "G", "H", "I", "J", "K", "L", "M",
       "N", "O", "P", "Q", "R", "S", "T", "U", "V", "W", "X", "Y", "Z", "[", "]",
       "a", "b", "c", "d", "e", "f", "g", "h", "i", "j", "k", "l", "m",
       "n", "o", "p", "q", "r", "s", "t", "u", "v", "w", "x", "y", "z">>

CharCode(c) == LetterIndex(CodePoints, c)

\* s < t on str
RECURSIVE TextLess(_, _)
TextLess(s, t) ==
    IF t = <<>> THEN FALSE
    ELSE IF s = <<>> THEN TRUE
    ELSE IF s[1] # t[1] THEN CharCode(s[1]) < CharCode(t[1])
    ELSE TextLess(Tail(s), Tail(t))

\* line 168
ModifiedBy == <<"m", "o", "d", "i", "f", "i", "e", "d", " ", "b", "y", ":">>

PluginNames == { <<"a">>, <<"b">>, <<"a", "b">> }

StackLines == { <<"a">>, <<"b">>, <<"x", "a", "b">>, <<"x">>,
                ModifiedBy \o <<" ", "a">> }

\* the orders in which a set may be iterated
Orders(S) ==
    { q \in SeqsUpTo(S, Cardinality(S)) :
        /\ Len(q) = Cardinality(S)
        /\ \A i, j \in 1..Len(q) : i # j => q[i] # q[j] }

\* line 168
RECURSIVE RelevantLines(_)
RelevantLines(lines) ==
    IF lines = <<>> THEN <<>>
    ELSE (IF Contains(Head(lines), ModifiedBy) THEN <<>> ELSE <<Head(lines)>>)
         \o RelevantLines(Tail(lines))

\* Counter[plugin] += 1 (line 181)
Increment(counter, plugin) ==
    IF HasKey(counter, plugin)
    THEN [k \in 1..Len(counter) |->
            IF counter[k].name = plugin
            THEN [counter[k] EXCEPT !.count = @ + 1] ELSE counter[k]]
    ELSE Append(counter, [name |-> plugin, count |-> 1])

\* lines 175-181: the inner loop over the plugins, in iteration order
RECURSIVE CountLine(_, _, _, _)
CountLine(counter, line, order, ignore) ==
    IF order = <<>> THEN counter
    ELSE CountLine(IF Head(order) \notin ignore /\ Contains(line, Head(order))
                   THEN Increment(counter, Head(order)) ELSE counter,
                   line, Tail(order), ignore)

\* Mutant of SortsBefore: the key is the count alone.
SortsBefore_CountOnly(x, y) == x.count > y.count

\* line 186: key (-count, name), x sorts strictly before y
SortsBefore(x, y) ==
    \/ x.count > y.count
    \/ x.count = y.count /\ TextLess(x.name, y.name)

\* sorted(items, key): stable, the first of the least items comes first
RECURSIVE Sorted(_)
Sorted(items) ==
    IF items = <<>> THEN <<>>
    ELSE LET i == CHOOSE a \in 1..Len(items) :
                     /\ \A b \in 1..Len(items) : ~SortsBefore(items[b], items[a])
                     /\ \A b \in 1..(a - 1) :
                           \E c \in 1..Len(items) : SortsBefore(items[c], items[b])
         IN  <<items[i]>> \o
             Sorted(SubSeq(items, 1, i - 1) \o SubSeq(items, i + 1, Len(items)))

PluginLine(item) == [kind |-> "plugin", plugin |-> item.name, count |-> item.count]
FixedLine(k) == [kind |-> k, plugin |-> <<>>, count |-> 0]

\* lines 183-197
PluginReport(counter) ==
    IF counter # <<>>
    THEN <<FixedLine("found in the crash stack")>>
         \o [k \in 1..Len(counter) |-> PluginLine(Sorted(counter)[k])]
         \o <<FixedLine("last number counts"), FixedLine("caught by crashgen"),
              FixedLine("try disabling these plugins")>>
    ELSE <<FixedLine("no plugin suspects")>>

PmInit ==
    /\ segment_callstack_lower \in SeqsUpTo(StackLines, MaxStackLines)
    /\ crashlog_plugins_lower \in SUBSET PluginNames
    /\ plugins_iteration \in Orders(crashlog_plugins_lower)
    /\ lower_plugins_ignore \in SUBSET { <<"b">> }
    /\ plugin_line_no = 0
    /\ plugins_matches = <<>>
    /\ plugin_report = <<>>
    /\ pm_pc = "loop"

PmIdle ==
    /\ segment_callstack_lower = <<>>
    /\ crashlog_plugins_lower = {}
    /\ plugins_iteration = <<>>
    /\ lower_plugins_ignore = {}
    /\ plugin_line_no = 0
    /\ plugins_matches = <<>>
    /\ plugin_report = <<>>
    /\ pm_pc = "idle"

\* lines 174-181: one relevant line
PmLine ==
    /\ pm_pc = "loop"
    /\ plugin_line_no < Len(RelevantLines(segment_callstack_lower))
    /\ plugins_matches' =
          CountLine(plugins_matches,
                    RelevantLines(segment_callstack_lower)[plugin_line_no + 1],
                    plugins_iteration, lower_plugins_ignore)
    /\ plugin_line_no' = plugin_line_no + 1
    /\ UNCHANGED <<segment_callstack_lower, crashlog_plugins_lower,
                   plugins_iteration, lower_plugins_ignore, plugin_report, pm_pc>>
    /\ UNCHANGED pmOthers

\* lines 183-197
PmReport ==
    /\ pm_pc = "loop"
    /\ plugin_line_no = Len(RelevantLines(segment_callstack_lower))
    /\ plugin_report' = PluginReport(plugins_matches)
    /\ pm_pc' = "returned"
    /\ UNCHANGED <<segment_callstack_lower, crashlog_plugins_lower,
                   plugins_iteration, lower_plugins_ignore, plugin_line_no,
                   plugins_matches>>
    /\ UNCHANGED pmOthers

(***************************************************************************)
(* RecordScanner.py : scan_named_records                                   *)
(***************************************************************************)

\* bound of the callstack
MaxRecordLines == 2

\* lines 47-48
rsp_marker == <<"[", "R", "S", "P", "+">>
rsp_offset == 30

\* yamldata.classic_records_list and yamldata.game_ignore_records
RecordLists == { {}, { <<"N", "m">> }, { <<"N", "m">>, <<"z">> } }
IgnoreLists == { {}, { <<"I", "g">> } }

\* the callstack lines of the model: plain lines, and lines with the
\* register marker whose text starts at column 30, before it, or nowhere
RecordLines ==
    { <<" ", " ", "N", "M", ":", " ", "b", " ">>,
      <<" ", " ", "n", "m", ":", " ", "a">>,
      <<"[", "R", "S", "P", "+", "6", "8", " ", "]", " ", "0", "x", "7",
        "F", "F", "6", "D", "8", "A", "3", " ", " ", " ", " ", " ", " ",
        " ", " ", " ", " ", " ", "N", "m", ":", " ", "a", " ">>,
      <<"[", "R", "S", "P", "+", "n", "m", " ", "]", " ", " ", " ", " ",
        " ", " ", " ", " ", " ", " ", " ", " ", " ", " ", " ", " ", " ",
        " ", " ", " ", " ", " ", " ">>,
      <<"[", "R", "S", "P", "+", " ", "n", "m">>,
      <<"[", "r", "s", "p", "+", " ", "n", "m", " ", " ", " ", " ", " ",
        " ", " ", " ", " ", " ", " ", " ", " ", " ", " ", " ", " ", " ",
        " ", " ", " ", " ", " ", "z">>,
      <<"N", "M", " ", "I", "G">>,
      <<"x", "y">> }

\* Mutant of LowerLine: the line is searched as written.
LowerLine_AsWritten(line) == line

\* line 72
LowerLine(line) == LowerAll(line)

\* lines 75-77
RecordWanted(line, records, ignore) ==
    /\ \E item \in records : Contains(LowerLine(line), item)
    /\ \A record \in ignore : ~Contains(LowerLine(line), record)

\* lines 79-82
RecordText(line) ==
    IF Contains(line, rsp_marker)
    THEN StripChars(SliceFrom(line, rsp_offset))
    ELSE StripChars(line)

\* sorted(list of str): stable, by str comparison
RECURSIVE SortedTexts(_)
SortedTexts(texts) ==
    IF texts = <<>> THEN <<>>
    ELSE LET i == CHOOSE a \in 1..Len(texts) :
                     /\ \A b \in 1..Len(texts) : ~TextLess(texts[b], texts[a])
                     /\ \A b \in 1..(a - 1) :
                           \E c \in 1..Len(texts) : TextLess(texts[c], texts[b])
         IN  <<texts[i]>> \o
             SortedTexts(SubSeq(texts, 1, i - 1) \o SubSeq(texts, i + 1, Len(texts)))

\* Counter(list): the items in order of first appearance with their counts
RECURSIVE CounterOf(_)
CounterOf(texts) ==
    IF texts = <<>> THEN <<>>
    ELSE Increment(CounterOf(SubSeq(texts, 1, Len(texts) - 1)), texts[Len(texts)])

RecordLineOf(item) == [kind |-> "record", record |-> item.name, count |-> item.count]
RecordNote(k) == [kind |-> k, record |-> <<>>, count |-> 0]

\* lines 93-105
FoundRecordsReport(matches) ==
    LET records_found == CounterOf(SortedTexts(matches))
    IN  [k \in 1..Len(records_found) |-> RecordLineOf(records_found[k])]
        \o <<RecordNote("last number counts"), RecordNote("caught by crashgen"),
             RecordNote("named records give extra info")>>

RecInit ==
    /\ record_callstack \in SeqsUpTo(RecordLines, MaxRecordLines)
    /\ lower_records \in { { LowerAll(r) : r \in rs } : rs \in RecordLists }
    /\ lower_ignore \in { { LowerAll(r) : r \in rs } : rs \in IgnoreLists }
    /\ record_line_no = 0
    /\ records_matches = <<>>
    /\ record_report = <<>>
    /\ rec_pc = "loop"

RecIdle ==
    /\ record_callstack = <<>>
    /\ lower_records = {}
    /\ lower_ignore = {}
    /\ record_line_no = 0
    /\ records_matches = <<>>
    /\ record_report = <<>>
    /\ rec_pc = "idle"

\* lines 71-82: one line of the callstack
RecLine ==
    /\ rec_pc = "loop"
    /\ record_line_no < Len(record_callstack)
    /\ LET line == record_callstack[record_line_no + 1]
       IN  records_matches' =
              IF RecordWanted(line, lower_records, lower_ignore)
              THEN Append(records_matches, RecordText(line))
              ELSE records_matches
    /\ record_line_no' = record_line_no + 1
    /\ UNCHANGED <<record_callstack, lower_records, lower_ignore,
                   record_report, rec_pc>>
    /\ UNCHANGED recOthers

\* lines 54-57 with 84-105
RecReport ==
    /\ rec_pc = "loop"
    /\ record_line_no = Len(record_callstack)
    /\ record_report' = IF records_matches # <<>>
                        THEN FoundRecordsReport(records_matches)
                        ELSE <<RecordNote("no named records")>>
    /\ rec_pc' = "returned"
    /\ UNCHANGED <<record_callstack, lower_records, lower_ignore,
                   record_line_no, records_matches>>
    /\ UNCHANGED recOthers

(***************************************************************************)
(* Parser.py : parse_crash_header                                          *)
(***************************************************************************)

\* bound of the log
MaxHeaderLines == 2

\* lines 27-29 and 36
UNKNOWN == <<"U", "N", "K", "N", "O", "W", "N">>
UnhandledException ==
    <<"U", "n", "h", "a", "n", "d", "l", "e", "d", " ", "e", "x", "c",
    "e", "p", "t", "i", "o", "n">>

HeaderLines ==
    { UnhandledException \o <<" ", "a", "|", "b", "|", "c">>,
      UnhandledException \o <<" ", "x">>,
      <<"G", " ", "1">>, <<"G", " ", "2", " ">>,
      <<"B", " ", "1">>, <<"B", " ", "2", " ">>,
      <<"z">> }

\* str.replace(old, new, 1) for a one-character old
ReplaceFirst(s, old, new) ==
    LET at == { k \in 1..Len(s) : s[k] = old }
    IN  IF at = {} THEN s
        ELSE LET i == CHOOSE a \in at : \A b \in at : a <= b
             IN  [s EXCEPT ![i] = new]

\* x or "UNKNOWN" (line 39)
OrUnknown(x) == IF x = <<>> THEN UNKNOWN ELSE x

HdrInit ==
    /\ header_data \in SeqsUpTo(HeaderLines, MaxHeaderLines)
    /\ game_root_name \in { <<>>, <<"G">> }
    /\ crashgen_name = <<"B">>
    /\ header_line_no = 0
    /\ game_version = UNKNOWN
    /\ crashgen_version = UNKNOWN
    /\ main_error = UNKNOWN
    /\ hdr_pc = "loop"

HdrIdle ==
    /\ header_data = <<>>
    /\ game_root_name = <<>>
    /\ crashgen_name = <<>>
    /\ header_line_no = 0
    /\ game_version = UNKNOWN
    /\ crashgen_version = UNKNOWN
    /\ main_error = UNKNOWN
    /\ hdr_pc = "idle"

\* lines 31-37: one line of the log
HdrLine ==
    /\ hdr_pc = "loop"
    /\ header_line_no < Len(header_data)
    /\ LET line == header_data[header_line_no + 1]
       IN  /\ game_version' =
                 IF game_root_name # <<>> /\ TextStartsWith(line, game_root_name)
                 THEN StripChars(line) ELSE game_version
           /\ crashgen_version' =
                 IF TextStartsWith(line, crashgen_name)
                 THEN StripChars(line) ELSE crashgen_version
           /\ main_error' =
                 IF TextStartsWith(line, UnhandledException)
                 THEN ReplaceFirst(line, "|", "\n") ELSE main_error
    /\ header_line_no' = header_line_no + 1
    /\ UNCHANGED <<header_data, game_root_name, crashgen_name, hdr_pc>>
    /\ UNCHANGED hdrOthers

\* line 39
HdrReturn ==
    /\ hdr_pc = "loop"
    /\ header_line_no = Len(header_data)
    /\ game_version' = OrUnknown(game_version)
    /\ crashgen_version' = OrUnknown(crashgen_version)
    /\ main_error' = OrUnknown(main_error)
    /\ hdr_pc' = "returned"
    /\ UNCHANGED <<header_data, game_root_name, crashgen_name, header_line_no>>
    /\ UNCHANGED hdrOthers

(***************************************************************************)
(* PluginAnalyzer.py : loadorder_scan_log                                  *)
(*                                                                         *)
(* pluginsearch (lines 35-38) is matched on the characters of an entry:    *)
(* optional whitespace, the bracketed id (FE: and three hex digits, or two *)
(* hex digits), optional whitespace, and the name: the shortest non-empty  *)
(* text followed by .esp, .esm or .esl, with every extension that follows  *)
(* at once; letter case is ignored.                                        *)
(***************************************************************************)

\* bound of the plugins segment
MaxPluginLines == 2

\* lines 109-111
plugin_status_dll == <<"D", "L", "L">>
plugin_status_unknown == <<"?", "?", "?">>
plugin_limit_marker == <<"[", "F", "F", "]">>

\* the lengths of the ids and of an extension in the pattern (line 36)
LightIdDigits == 3
FullIdDigits == 2
ExtensionLength == 4

PluginEntries ==
    { <<"[", "0", "0", "]", " ", "A", ".", "e", "s", "m">>,
      <<"[", "0", "1", "]", " ", "A", ".", "e", "s", "m">>,
      <<"[", "0", "A", "]", " ", " ", " ", "a", ".", "e", "s", "m">>,
      <<"[", "F", "E", ":", "0", "0", "1", "]", " ", "B", ".", "e", "s", "l">>,
      <<"[", "f", "e", ":", "0", "a", "2", "]", " ", "A", ".", "e", "s", "m">>,
      <<"[", "F", "F", "]", " ", "C", ".", "e", "s", "p", ".", "e", "s", "p", " ", "x">>,
      <<"[", "0", "0", "]", " ", " ", ".", "e", "s", "p">>,
      <<"A", ".", "e", "s", "p">>,
      <<"d", "l", "l", ".", "e", "s", "p">>,
      <<"[", "0", "1", "]", " ", "d", "l", "l", ".", "e", "s", "p">>,
      <<"[", "1", "]", " ", "D", ".", "e", "s", "p">>,
      <<"[", "0", "0", "]", " ", "x", ".", "d", "l", "l">> }

PluginGames == [is_original_game : BOOLEAN,
                is_new_game_crashgen_pre_137 : BOOLEAN]

\* [0-9A-F]{n} at position p
HexRun(entry, p, n) ==
    /\ Len(entry) >= p + n - 1
    /\ \A k \in p..(p + n - 1) : IsHexDigit(entry[k])

\* (FE:([0-9A-F]{3})|[0-9A-F]{2})\] at position p: the length of the id, 0
\* when neither alternative is followed by the closing bracket
IdLength(entry, p) ==
    IF /\ MatchLiteral(entry, p, <<"F", "E", ":">>)
       /\ HexRun(entry, p + 3, LightIdDigits)
       /\ MatchLiteral(entry, p + 3 + LightIdDigits, <<"]">>)
    THEN 3 + LightIdDigits
    ELSE IF /\ HexRun(entry, p, FullIdDigits)
            /\ MatchLiteral(entry, p + FullIdDigits, <<"]">>)
    THEN FullIdDigits
    ELSE 0

\* \.es[pml] at position p
ExtensionAt(entry, p) ==
    /\ Len(entry) >= p + ExtensionLength - 1
    /\ entry[p] = "."
    /\ Lower(entry[p + 1]) = "e"
    /\ Lower(entry[p + 2]) = "s"
    /\ Lower(entry[p + 3]) \in {"p", "m", "l"}

\* (?:\.es[pml])+ from position p on: the position after the last extension
RECURSIVE ExtensionsEnd(_, _)
ExtensionsEnd(entry, p) ==
    IF ExtensionAt(entry, p) THEN ExtensionsEnd(entry, p + ExtensionLength)
    ELSE p

\* \s*(.+?(?:\.es[pml])+) at position q: the whitespace is taken as far as
\* it goes and given back one character at a time until a name is found
PluginNameAt(entry, q) ==
    LET e == SkipSpace(entry, q)
        starts == { s \in q..e :
                      \E p \in (s + 1)..Len(entry) : ExtensionAt(entry, p) }
    IN  IF starts = {} THEN [found |-> FALSE, name |-> <<>>]
        ELSE LET s == CHOOSE a \in starts : \A b \in starts : a >= b
                 ps == { p \in (s + 1)..Len(entry) : ExtensionAt(entry, p) }
                 p == CHOOSE a \in ps : \A b \in ps : a <= b
             IN  [found |-> TRUE,
                  name |-> SubSeq(entry, s, ExtensionsEnd(entry, p) - 1)]

\* self.pluginsearch.match(entry), line 132: [matched, has_id, id, name];
\* group 1 is not optional in the pattern, so a match always has an id
PluginSearch(entry) ==
    LET b == SkipSpace(entry, 1)
        n == IF MatchLiteral(entry, b, <<"[">>) THEN IdLength(entry, b + 1) ELSE 0
        nm == IF n > 0 THEN PluginNameAt(entry, b + 1 + n + 1)
              ELSE [found |-> FALSE, name |-> <<>>]
    IN  IF nm.found
        THEN [matched |-> TRUE, has_id |-> TRUE,
              id |-> SubSeq(entry, b + 1, b + n), name |-> nm.name]
        ELSE [matched |-> FALSE, has_id |-> FALSE, id |-> <<>>, name |-> <<>>]

\* str.replace(":", "") (line 146)
RECURSIVE WithoutColons(_)
WithoutColons(s) ==
    IF s = <<>> THEN <<>>
    ELSE (IF Head(s) = ":" THEN <<>> ELSE <<Head(s)>>) \o WithoutColons(Tail(s))

\* lines 145-150: the status of a matched entry
PluginStatus(m) ==
    IF m.has_id THEN WithoutColons(m.id)
    ELSE IF Contains(LowerAll(m.name), <<"d", "l", "l">>) THEN plugin_status_dll
    ELSE plugin_status_unknown

\* Mutant of AlreadyMapped: a name is never taken as processed.
AlreadyMapped_Never(map, name) == FALSE

\* line 141: plugin_name in plugin_map
AlreadyMapped(map, name) == HasKey(map, name)

\* plugin_map[name] = status (lines 146-150): a new key goes last, a key of
\* the dict keeps its place
SetItem(map, name, status) ==
    IF HasKey(map, name)
    THEN [k \in 1..Len(map) |->
            IF map[k].name = name THEN [map[k] EXCEPT !.status = status]
            ELSE map[k]]
    ELSE Append(map, [name |-> name, status |-> status])

\* lines 133-150: the map after an entry with the match m
PluginMapWith(map, m) ==
    IF ~m.matched \/ m.name = <<>> \/ AlreadyMapped(map, m.name)
    THEN map
    ELSE SetItem(map, m.name, PluginStatus(m))

\* lines 118 and 123-152: the map loadorder_scan_log returns for a segment
RECURSIVE ScanLogPlugins(_)
ScanLogPlugins(segment) ==
    IF segment = <<>> THEN <<>>
    ELSE PluginMapWith(ScanLogPlugins(SubSeq(segment, 1, Len(segment) - 1)),
                       PluginSearch(segment[Len(segment)]))

PlInit ==
    /\ segment_plugins \in SeqsUpTo(PluginEntries, MaxPluginLines)
    /\ plugin_game \in PluginGames
    /\ plugin_entry_no = 0
    /\ plugin_map = <<>>
    /\ plugin_limit_triggered = FALSE
    /\ limit_check_disabled = FALSE
    /\ pl_pc = "loop"

PlIdle ==
    /\ segment_plugins = <<>>
    /\ plugin_game = [is_original_game |-> FALSE,
                      is_new_game_crashgen_pre_137 |-> FALSE]
    /\ plugin_entry_no = 0
    /\ plugin_map = <<>>
    /\ plugin_limit_triggered = FALSE
    /\ limit_check_disabled = FALSE
    /\ pl_pc = "idle"

\* lines 123-150: one entry
PlEntry ==
    /\ pl_pc = "loop"
    /\ plugin_entry_no < Len(segment_plugins)
    /\ LET entry == segment_plugins[plugin_entry_no + 1]
           marked == Contains(entry, plugin_limit_marker)
           m == PluginSearch(entry)
       IN  /\ plugin_limit_triggered' =
                 (plugin_limit_triggered
                    \/ (marked /\ plugin_game.is_original_game))
           /\ limit_check_disabled' =
                 (limit_check_disabled
                    \/ (marked /\ ~plugin_game.is_original_game
                               /\ plugin_game.is_new_game_crashgen_pre_137))
           /\ plugin_map' = PluginMapWith(plugin_map, m)
    /\ plugin_entry_no' = plugin_entry_no + 1
    /\ UNCHANGED <<segment_plugins, plugin_game, pl_pc>>
    /\ UNCHANGED plOthers

\* lines 105-106 and 152
PlReturn ==
    /\ pl_pc = "loop"
    /\ plugin_entry_no = Len(segment_plugins)
    /\ pl_pc' = "returned"
    /\ UNCHANGED <<segment_plugins, plugin_game, plugin_entry_no, plugin_map,
                   plugin_limit_triggered, limit_check_disabled>>
    /\ UNCHANGED plOthers

(***************************************************************************)
(* PluginAnalyzer.py : filter_ignored_plugins                              *)
(***************************************************************************)

\* bound of the dict given to the filter
MaxMapKeys == 2

FilterNames ==
    { <<"A", ".", "e", "s", "p">>, <<"a", ".", "e", "s", "p">>,
      <<"B", ".", "e", "s", "p">> }

FilterStatuses == { <<"0", "0">>, <<"F", "E", "0", "0", "1">> }

\* yamldata.ignore_list (line 40)
IgnoreListItems ==
    { <<"A", ".", "e", "s", "p">>, <<"b", ".", "e", "s", "p">>,
      <<"c", ".", "e", "s", "p">> }

\* the dicts a caller may hold: keys are unique
FilterDicts ==
    { d \in SeqsUpTo([name : FilterNames, status : FilterStatuses], MaxMapKeys) :
        \A k, m \in 1..Len(d) : k # m => d[k].name # d[m].name }

\* {k.lower(): k for k in crashlog_plugins} (line 213): a lowercased key that
\* comes again keeps its place and takes the later key
RECURSIVE LowerKeyMap(_)
LowerKeyMap(d) ==
    IF d = <<>> THEN <<>>
    ELSE LET front == LowerKeyMap(SubSeq(d, 1, Len(d) - 1))
             last == d[Len(d)]
         IN  SetItem(front, LowerAll(last.name), last.name)

\* crashlog_plugins_lower[signal] (line 218)
ItemOf(map, key) ==
    LET k == CHOOSE k \in 1..Len(map) : map[k].name = key IN map[k].status

\* del crashlog_plugins[original_key] (line 219)
DelItem(d, key) == SelectSeq(d, LAMBDA r : r.name # key)

FltInit ==
    /\ ignore_plugins_list \in { { LowerAll(i) : i \in l } : l \in SUBSET IgnoreListItems }
    /\ crashlog_plugins \in FilterDicts
    /\ crashlog_plugins_given = crashlog_plugins
    /\ lower_to_key = <<>>
    /\ ignore_pending = {}
    /\ flt_pc = "called"

FltIdle ==
    /\ ignore_plugins_list = {}
    /\ crashlog_plugins = <<>>
    /\ crashlog_plugins_given = <<>>
    /\ lower_to_key = <<>>
    /\ ignore_pending = {}
    /\ flt_pc = "idle"

\* lines 209-210: nothing to ignore
FltReturnEarly ==
    /\ flt_pc = "called"
    /\ ignore_plugins_list = {}
    /\ flt_pc' = "returned"
    /\ UNCHANGED <<ignore_plugins_list, crashlog_plugins, crashlog_plugins_given,
                   lower_to_key, ignore_pending>>
    /\ UNCHANGED fltOthers

\* line 213
FltLowerKeys ==
    /\ flt_pc = "called"
    /\ ignore_plugins_list # {}
    /\ lower_to_key' = LowerKeyMap(crashlog_plugins)
    /\ ignore_pending' = ignore_plugins_list
    /\ flt_pc' = "loop"
    /\ UNCHANGED <<ignore_plugins_list, crashlog_plugins, crashlog_plugins_given>>
    /\ UNCHANGED fltOthers

\* lines 216-219: one signal of the set, in the order the set gives them
FltSignal ==
    /\ flt_pc = "loop"
    /\ \E signal \in ignore_pending :
          /\ ignore_pending' = ignore_pending \ {signal}
          /\ crashlog_plugins' =
                IF HasKey(lower_to_key, signal)
                THEN DelItem(crashlog_plugins, ItemOf(lower_to_key, signal))
                ELSE crashlog_plugins
    /\ UNCHANGED <<ignore_plugins_list, crashlog_plugins_given,
                   lower_to_key, flt_pc>>
    /\ UNCHANGED fltOthers

\* line 221
FltReturn ==
    /\ flt_pc = "loop"
    /\ ignore_pending = {}
    /\ flt_pc' = "returned"
    /\ UNCHANGED <<ignore_plugins_list, crashlog_plugins, crashlog_plugins_given,
                   lower_to_key, ignore_pending>>
    /\ UNCHANGED fltOthers

(***************************************************************************)
(* FormIDAnalyzer.py : formid_match                                        *)
(*                                                                         *)
(* The plugins are those the in-log parse returns for a plugins segment,   *)
(* the Form IDs are texts as extract_formids makes them.                   *)
(***************************************************************************)

\* bounds of the parameters
MaxFormIds == 2
MaxMatchPlugins == 2

\* the hex values of the Form IDs given, uppercased by extract_formids
MatchFormIdValues ==
    { <<"0", "0", "0", "0", "0", "0", "0", "1">>,
      <<"0", "A", "0", "0", "0", "0", "0", "1">>,
      <<"F", "E", "0", "0", "1", "0", "0", "1">> }

\* the lines of the plugins segment
MatchPluginLines ==
    { <<"[", "0", "0", "]", " ", "A", ".", "e", "s", "m">>,
      <<"[", "0", "0", "]", " ", "B", ".", "e", "s", "m">>,
      <<"[", "0", "a", "]", " ", "C", ".", "e", "s", "p">>,
      <<"[", "F", "E", ":", "0", "0", "1", "]", " ", "D", ".", "e", "s", "l">> }

\* the entries the lookup may know: (suffix, plugin)
LookupEntries ==
    { [suffix |-> <<"0", "0", "0", "0", "0", "1">>, plugin |-> <<"A", ".", "e", "s", "m">>],
      [suffix |-> <<"0", "0", "0", "0", "0", "1">>, plugin |-> <<"B", ".", "e", "s", "m">>] }

\* formid_split[1][:2] and formid_split[1][2:] (lines 88 and 91)
IdPrefixLength == 2
SplitValue(formid_full) == SliceFrom(formid_full, Len(FormIdText))
IdPrefix(formid_full) == Slice(SplitValue(formid_full), 0, IdPrefixLength)
IdSuffix(formid_full) == SliceFrom(SplitValue(formid_full), IdPrefixLength)

\* get_entry(suffix, plugin) (line 92): whether a description is found
GetEntry(db, suffix, plugin) == [suffix |-> suffix, plugin |-> plugin] \in db

\* the report lines: one of a group (with or without description), the
\* closing note, the note of the empty case
FormIdLine(item, plugin, described) ==
    [kind |-> "formid", formid |-> item.name, plugin |-> plugin,
     described |-> described, count |-> item.count]
FormIdNote(k) ==
    [kind |-> k, formid |-> <<>>, plugin |-> <<>>, described |-> FALSE, count |-> 0]

FmInit ==
    /\ fm_formids \in SeqsUpTo({ FormIdText \o v : v \in MatchFormIdValues }, MaxFormIds)
    /\ fm_plugins \in { ScanLogPlugins(seg) :
                          seg \in SeqsUpTo(MatchPluginLines, MaxMatchPlugins) }
    /\ show_formid_values \in BOOLEAN
    /\ formid_db_exists \in BOOLEAN
    /\ formid_db \in SUBSET LookupEntries
    /\ formids_found = <<>>
    /\ fm_group_no = 0
    /\ fm_plugin_no = 0
    /\ fm_report = <<>>
    /\ fm_pc = "called"

FmIdle ==
    /\ fm_formids = <<>>
    /\ fm_plugins = <<>>
    /\ show_formid_values = FALSE
    /\ formid_db_exists = FALSE
    /\ formid_db = {}
    /\ formids_found = <<>>
    /\ fm_group_no = 0
    /\ fm_plugin_no = 0
    /\ fm_report = <<>>
    /\ fm_pc = "idle"

\* lines 110-111: no Form IDs
FmNone ==
    /\ fm_pc = "called"
    /\ fm_formids = <<>>
    /\ fm_report' = Append(fm_report, FormIdNote("no formid suspects"))
    /\ fm_pc' = "returned"
    /\ UNCHANGED <<fm_formids, fm_plugins, show_formid_values, formid_db_exists,
                   formid_db, formids_found, fm_group_no, fm_plugin_no>>
    /\ UNCHANGED fmOthers

\* lines 81-83: the groups, and the first of them
FmGroups ==
    /\ fm_pc = "called"
    /\ fm_formids # <<>>
    /\ formids_found' = CounterOf(SortedTexts(fm_formids))
    /\ fm_group_no' = 1
    /\ fm_plugin_no' = 0
    /\ fm_pc' = "plugins"
    /\ UNCHANGED <<fm_formids, fm_plugins, show_formid_values, formid_db_exists,
                   formid_db, fm_report>>
    /\ UNCHANGED fmOthers

\* line 95: continue, the loop goes on with the next plugin
AfterDescribedLine(p) == p + 1

\* lines 87-98: one plugin of the inner loop
FmPlugin ==
    /\ fm_pc = "plugins"
    /\ fm_group_no <= Len(formids_found)
    /\ fm_plugin_no < Len(fm_plugins)
    /\ LET item == formids_found[fm_group_no]
           plugin == fm_plugins[fm_plugin_no + 1]
       IN  IF plugin.status # IdPrefix(item.name)
           THEN /\ fm_plugin_no' = fm_plugin_no + 1
                /\ UNCHANGED fm_report
           ELSE IF /\ show_formid_values /\ formid_db_exists
                   /\ GetEntry(formid_db, IdSuffix(item.name), plugin.name)
           THEN /\ fm_report' = Append(fm_report, FormIdLine(item, plugin.name, TRUE))
                /\ fm_plugin_no' = AfterDescribedLine(fm_plugin_no)
           ELSE /\ fm_report' = Append(fm_report, FormIdLine(item, plugin.name, FALSE))
                /\ fm_plugin_no' = Len(fm_plugins)
    /\ UNCHANGED <<fm_formids, fm_plugins, show_formid_values, formid_db_exists,
                   formid_db, formids_found, fm_group_no, fm_pc>>
    /\ UNCHANGED fmOthers

\* lines 83 and 87: the inner loop is over, the next group
FmNextGroup ==
    /\ fm_pc = "plugins"
    /\ fm_group_no <= Len(formids_found)
    /\ fm_plugin_no = Len(fm_plugins)
    /\ fm_group_no' = fm_group_no + 1
    /\ fm_plugin_no' = 0
    /\ UNCHANGED <<fm_formids, fm_plugins, show_formid_values, formid_db_exists,
                   formid_db, formids_found, fm_report, fm_pc>>
    /\ UNCHANGED fmOthers

\* lines 101-108: the closing note
FmReturn ==
    /\ fm_pc = "plugins"
    /\ fm_group_no > Len(formids_found)
    /\ fm_report' = Append(fm_report, FormIdNote("formid note"))
    /\ fm_pc' = "returned"
    /\ UNCHANGED <<fm_formids, fm_plugins, show_formid_values, formid_db_exists,
                   formid_db, formids_found, fm_group_no, fm_plugin_no>>
    /\ UNCHANGED fmOthers

(***************************************************************************)
(* SettingsScanner.py : scan_buffout_memorymanagement_settings             *)
(*                                                                         *)
(* A value of crashgen is "True", "False" or "absent" (no such key).  The  *)
(* report is the sequence of the lines appended: a warning is two lines,   *)
(* a confirmation one.                                                     *)
(***************************************************************************)

\* lines 119-124: the keys of memory_settings, in dict order
memory_settings ==
    <<"HavokMemorySystem", "BSTextureStreamerLocalHeap",
      "ScaleformAllocator", "SmallBlockAllocator">>

MemoryManagerKey == "MemoryManager"

CrashgenKeys == {MemoryManagerKey} \cup { memory_settings[k] : k \in 1..Len(memory_settings) }

CrashgenValues == {"True", "False", "absent"}

\* bool(crashgen.get(key)) and bool(crashgen.get(key, False))
Truthy(crashgen, key) == crashgen[key] = "True"

\* add_warning_message (lines 80-82): two lines
WarningLines(key, text) ==
    << [part |-> "warning", about |-> key, text |-> text],
       [part |-> "fix", about |-> key, text |-> text] >>

\* add_success_message (lines 76-78): one line
SuccessLines(key, text) ==
    << [part |-> "success", about |-> key, text |-> text] >>

\* lines 88-116: the lines of the main setting
MainSettingLines(enabled, xcell, baka) ==
    IF enabled /\ xcell
    THEN WarningLines(MemoryManagerKey, "xcell with manager on")
    ELSE IF enabled /\ baka
    THEN WarningLines(MemoryManagerKey, "baka redundant with crashgen")
    ELSE IF enabled
    THEN SuccessLines(MemoryManagerKey, "correctly configured")
    ELSE IF xcell /\ baka
    THEN WarningLines(MemoryManagerKey, "baka redundant with xcell")
    ELSE IF xcell
    THEN SuccessLines(MemoryManagerKey, "correctly configured for xcell")
    ELSE IF baka
    THEN WarningLines(MemoryManagerKey, "baka redundant, enable manager")
    ELSE <<>>

\* lines 127-136: the lines of an auxiliary setting
AuxSettingLines(crashgen, key) ==
    IF Truthy(crashgen, key)
    THEN WarningLines(key, "xcell with setting on")
    ELSE SuccessLines(key, "correctly configured for xcell")

MmInit ==
    /\ mm_crashgen \in [CrashgenKeys -> CrashgenValues]
    /\ has_xcell \in BOOLEAN
    /\ has_baka_scrapheap \in BOOLEAN
    /\ mm_setting_no = 0
    /\ mm_report = <<>>
    /\ mm_pc = "main"

MmIdle ==
    /\ mm_crashgen = [k \in CrashgenKeys |-> "absent"]
    /\ has_xcell = FALSE
    /\ has_baka_scrapheap = FALSE
    /\ mm_setting_no = 0
    /\ mm_report = <<>>
    /\ mm_pc = "idle"

\* lines 85-116: the main setting
MmMain ==
    /\ mm_pc = "main"
    /\ mm_report' = mm_report \o MainSettingLines(Truthy(mm_crashgen, MemoryManagerKey),
                                                  has_xcell, has_baka_scrapheap)
    /\ mm_pc' = IF has_xcell THEN "settings" ELSE "returned"
    /\ UNCHANGED <<mm_crashgen, has_xcell, has_baka_scrapheap, mm_setting_no>>
    /\ UNCHANGED mmOthers

\* lines 126-136: one auxiliary setting
MmSetting ==
    /\ mm_pc = "settings"
    /\ mm_setting_no < Len(memory_settings)
    /\ mm_report' = mm_report \o AuxSettingLines(mm_crashgen, memory_settings[mm_setting_no + 1])
    /\ mm_setting_no' = mm_setting_no + 1
    /\ UNCHANGED <<mm_crashgen, has_xcell, has_baka_scrapheap, mm_pc>>
    /\ UNCHANGED mmOthers

\* the loop of line 126 is over
MmReturn ==
    /\ mm_pc = "settings"
    /\ mm_setting_no = Len(memory_settings)
    /\ mm_pc' = "returned"
    /\ UNCHANGED <<mm_crashgen, has_xcell, has_baka_scrapheap, mm_setting_no, mm_report>>
    /\ UNCHANGED mmOthers

(***************************************************************************)
(* FCXModeHandler.py : reset_fcx_checks called while callers are in        *)
(* check_fcx_mode                                                          *)
(***************************************************************************)

\* the thread that calls reset_fcx_checks
Resetter == NumThreads + 1

RstIdle == reset_pc = "idle"

RstInit == reset_pc = "call"

\* Line 66: the lock is taken.
RstAcquire ==
    /\ reset_pc = "call"
    /\ LockAvailable(fcx_lock, Resetter)
    /\ fcx_lock' = AcquireLock(fcx_lock, Resetter)
    /\ reset_pc' = "flag"
    /\ UNCHANGED <<fcx_checks_run, main_files_result, game_files_result,
                   main_calls, game_calls, fcxCallerVars>>
    /\ UNCHANGED rstOthers

\* Line 67
RstChecksRun ==
    /\ reset_pc = "flag"
    /\ fcx_checks_run' = FALSE
    /\ reset_pc' = "main"
    /\ UNCHANGED <<fcx_lock, main_files_result, game_files_result,
                   main_calls, game_calls, fcxCallerVars>>
    /\ UNCHANGED rstOthers

\* Line 68
RstMainResult ==
    /\ reset_pc = "main"
    /\ main_files_result' = ""
    /\ reset_pc' = "game"
    /\ UNCHANGED <<fcx_lock, fcx_checks_run, game_files_result,
                   main_calls, game_calls, fcxCallerVars>>
    /\ UNCHANGED rstOthers

\* Line 69
RstGameResult ==
    /\ reset_pc = "game"
    /\ game_files_result' = ""
    /\ reset_pc' = "release"
    /\ UNCHANGED <<fcx_lock, fcx_checks_run, main_files_result,
                   main_calls, game_calls, fcxCallerVars>>
    /\ UNCHANGED rstOthers

\* End of the with block (line 66).
RstRelease ==
    /\ reset_pc = "release"
    /\ fcx_lock' = ReleaseLock(fcx_lock)
    /\ reset_pc' = "done"
    /\ UNCHANGED <<fcx_checks_run, main_files_result, game_files_result,
                   main_calls, game_calls, fcxCallerVars>>
    /\ UNCHANGED rstOthers

(***************************************************************************)
(* Specifications                                                          *)
(***************************************************************************)

SegNext ==
    \/ SegOrdinaryLine
    \/ SegEndBoundary
    \/ SegStartBoundary
    \/ SegLoopExit
    \/ FindSegmentsReturn

InitSeg == SegInit /\ SusIdle /\ FcxIdle /\ BatchIdle /\ FidIdle /\ LoIdle /\ PmIdle /\ RecIdle /\ HdrIdle /\ PlIdle /\ FltIdle /\ FmIdle /\ MmIdle /\ RstIdle

SpecSeg == InitSeg /\ [][SegNext]_vars

SusNext ==
    \/ SusNextRule
    \/ SusProcessSignal
    \/ SusVerdict
    \/ SusReturn

InitSus == SusInit /\ SegIdle /\ FcxIdle /\ BatchIdle /\ FidIdle /\ LoIdle /\ PmIdle /\ RecIdle /\ HdrIdle /\ PlIdle /\ FltIdle /\ FmIdle /\ MmIdle /\ RstIdle

SpecSus == InitSus /\ [][SusNext]_vars

FcxNext ==
    \E t \in Threads :
        \/ FcxDisabled(t)
        \/ FcxAcquire(t)
        \/ FcxTest(t)
        \/ FcxComputeMain(t)
        \/ FcxComputeGame(t)
        \/ FcxSetChecksRun(t)
        \/ FcxRelease(t)
        \/ FcxReadMain(t)
        \/ FcxReadGame(t)

InitFcx == FcxInit /\ SegIdle /\ SusIdle /\ BatchIdle /\ FidIdle /\ LoIdle /\ PmIdle /\ RecIdle /\ HdrIdle /\ PlIdle /\ FltIdle /\ FmIdle /\ MmIdle /\ RstIdle

SpecFcx == InitFcx /\ [][FcxNext]_vars

BatchNext ==
    \/ BatchConstructScanner
    \/ BatchResetFcxChecks
    \/ BatchSubmitAll
    \/ \E f \in Files : TaskRun(f)
    \/ \E f \in Files : BatchConsume(f)
    \/ BatchNotice
    \/ BatchTerminalMessage
    \/ BatchReturn

InitBatch == BatchInit /\ FcxIdle /\ SegIdle /\ SusIdle /\ FidIdle /\ LoIdle /\ PmIdle /\ RecIdle /\ HdrIdle /\ PlIdle /\ FltIdle /\ FmIdle /\ MmIdle /\ RstIdle

SpecBatch == InitBatch /\ [][BatchNext]_vars

FidNext ==
    \/ FidLine
    \/ FidReturn

InitFid == FidInit /\ SegIdle /\ SusIdle /\ FcxIdle /\ BatchIdle /\ LoIdle /\ PmIdle /\ RecIdle /\ HdrIdle /\ PlIdle /\ FltIdle /\ FmIdle /\ MmIdle /\ RstIdle

SpecFid == InitFid /\ [][FidNext]_vars

LoNext ==
    \/ LoOpenRead
    \/ LoEntry
    \/ LoLoopExit
    \/ LoReturn

InitLo == LoInit /\ SegIdle /\ SusIdle /\ FcxIdle /\ BatchIdle /\ FidIdle /\ PmIdle /\ RecIdle /\ HdrIdle /\ PlIdle /\ FltIdle /\ FmIdle /\ MmIdle /\ RstIdle

SpecLo == InitLo /\ [][LoNext]_vars

PmNext ==
    \/ PmLine
    \/ PmReport

InitPm == PmInit /\ SegIdle /\ SusIdle /\ FcxIdle /\ BatchIdle /\ FidIdle /\ LoIdle /\ RecIdle /\ HdrIdle /\ PlIdle /\ FltIdle /\ FmIdle /\ MmIdle /\ RstIdle

SpecPm == InitPm /\ [][PmNext]_vars

RecNext ==
    \/ RecLine
    \/ RecReport

InitRec == RecInit /\ SegIdle /\ SusIdle /\ FcxIdle /\ BatchIdle /\ FidIdle /\ LoIdle /\ PmIdle /\ HdrIdle /\ PlIdle /\ FltIdle /\ FmIdle /\ MmIdle /\ RstIdle

SpecRec == InitRec /\ [][RecNext]_vars

HdrNext ==
    \/ HdrLine
    \/ HdrReturn

InitHdr == HdrInit /\ SegIdle /\ SusIdle /\ FcxIdle /\ BatchIdle /\ FidIdle /\ LoIdle /\ PmIdle /\ RecIdle /\ PlIdle /\ FltIdle /\ FmIdle /\ MmIdle /\ RstIdle

SpecHdr == InitHdr /\ [][HdrNext]_vars

PlNext ==
    \/ PlEntry
    \/ PlReturn

InitPl == PlInit /\ SegIdle /\ SusIdle /\ FcxIdle /\ BatchIdle /\ FidIdle /\ LoIdle /\ PmIdle /\ RecIdle /\ HdrIdle /\ FltIdle /\ FmIdle /\ MmIdle /\ RstIdle

SpecPl == InitPl /\ [][PlNext]_vars

FltNext ==
    \/ FltReturnEarly
    \/ FltLowerKeys
    \/ FltSignal
    \/ FltReturn

InitFlt == FltInit /\ SegIdle /\ SusIdle /\ FcxIdle /\ BatchIdle /\ FidIdle /\ LoIdle /\ PmIdle /\ RecIdle /\ HdrIdle /\ PlIdle /\ FmIdle /\ MmIdle /\ RstIdle

SpecFlt == InitFlt /\ [][FltNext]_vars

InitSusOrder == SusOrderInit /\ SegIdle /\ FcxIdle /\ BatchIdle /\ FidIdle /\ LoIdle /\ PmIdle /\ RecIdle /\ HdrIdle /\ PlIdle /\ FltIdle /\ FmIdle /\ MmIdle /\ RstIdle

SpecSusOrder == InitSusOrder /\ [][SusNext]_vars

FmNext ==
    \/ FmNone
    \/ FmGroups
    \/ FmPlugin
    \/ FmNextGroup
    \/ FmReturn

InitFm == FmInit /\ SegIdle /\ SusIdle /\ FcxIdle /\ BatchIdle /\ FidIdle /\ LoIdle /\ PmIdle /\ RecIdle /\ HdrIdle /\ PlIdle /\ FltIdle /\ MmIdle /\ RstIdle

SpecFm == InitFm /\ [][FmNext]_vars

MmNext ==
    \/ MmMain
    \/ MmSetting
    \/ MmReturn

InitMm == MmInit /\ SegIdle /\ SusIdle /\ FcxIdle /\ BatchIdle /\ FidIdle /\ LoIdle /\ PmIdle /\ RecIdle /\ HdrIdle /\ PlIdle /\ FltIdle /\ FmIdle /\ RstIdle

SpecMm == InitMm /\ [][MmNext]_vars

\* the loop of extract_segments and the return of find_segments go on as
\* long as they can: a sequential program
SpecSegFair == InitSeg /\ [][SegNext]_vars /\ WF_vars(SegNext)

RstNext ==
    \/ RstAcquire
    \/ RstChecksRun
    \/ RstMainResult
    \/ RstGameResult
    \/ RstRelease

\* the callers of check_fcx_mode and one caller of reset_fcx_checks, in any
\* interleaving
FcxResetNext == FcxNext \/ RstNext

InitFcxReset == FcxInit /\ RstInit /\ SegIdle /\ SusIdle /\ BatchIdle /\ FidIdle /\ LoIdle /\ PmIdle /\ RecIdle /\ HdrIdle /\ PlIdle /\ FltIdle /\ FmIdle /\ MmIdle

SpecFcxReset == InitFcxReset /\ [][FcxResetNext]_vars

(***************************************************************************)
(* What the segment claims speak of, read off the input alone              *)
(***************************************************************************)

IsMarkerLine(i, k) == StartsWith(crash_data[i], segment_boundaries[k][1])

MarkerPresent(k) == \E i \in 1..Len(crash_data) : IsMarkerLine(i, k)

\* First line after position p that begins with the start marker of pair k
\* (0 when there is none).
FirstAfter(k, p) ==
    LET S == { i \in (p + 1)..Len(crash_data) : IsMarkerLine(i, k) }
    IN  IF S = {} THEN 0 ELSE CHOOSE i \in S : \A j \in S : i <= j

\* Position of marker k when markers 1..k are taken in canonical order, each
\* the first one after its predecessor (0 when the chain breaks).
RECURSIVE ChainPos(_)
ChainPos(k) ==
    IF k = 1 THEN FirstAfter(1, 0)
    ELSE LET p == ChainPos(k - 1)
         IN  IF p = 0 THEN 0 ELSE FirstAfter(k, p)

\* All six markers occur in canonical order.
CanonicalLog == ChainPos(NumPairs) # 0

\* Pair k is present: its start marker, and after it its end marker (the end
\* of pair NumPairs is the end of the log).
PairPresent(k) ==
    /\ MarkerPresent(k)
    /\ k < NumPairs => FirstAfter(k + 1, FirstAfter(k, 0)) # 0

\* Pair k is entirely absent: neither of its markers occurs.
PairAbsent(k) ==
    /\ ~MarkerPresent(k)
    /\ k < NumPairs => ~MarkerPresent(k + 1)

\* The stripped lines strictly between the start marker of pair k and its
\* end marker.
LinesBetween(k) ==
    LET s == FirstAfter(k, 0)
        e == IF k < NumPairs THEN FirstAfter(k + 1, s)
             ELSE Len(crash_data) + 1
    IN  StripAll(SubSeq(crash_data, s + 1, e - 1))

\* C1: for a log with all six markers in canonical order find_segments
\* returns exactly six segments, segment k being exactly the (stripped) lines
\* strictly between start marker k and end marker k.
C1_SegmentsAreLinesBetween ==
    (seg_pc = "done" /\ CanonicalLog) =>
        /\ Len(processed_segments) = NumPairs
        /\ \A k \in 1..NumPairs : processed_segments[k] = LinesBetween(k)

\* C2 as stated: when some pair is entirely absent, find_segments does not
\* raise, returns six segments, the segment of every absent pair is empty and
\* the segment of every present pair is still extracted.
C2_PresentPairsStillExtracted ==
    /\ seg_pc # "raised"
    /\ (seg_pc = "done" /\ \E a \in 1..NumPairs : PairAbsent(a)) =>
        /\ Len(processed_segments) = NumPairs
        /\ \A k \in 1..NumPairs :
              /\ PairAbsent(k) => processed_segments[k] = <<>>
              /\ PairPresent(k) => processed_segments[k] = LinesBetween(k)

\* C2 amended: when some pair is entirely absent, find_segments does not
\* raise, returns six segments, the segment of every absent pair is empty,
\* and a segment is non-empty only if its start marker and the start markers
\* of all earlier pairs occur in canonical order.
C2_AbsentPairsEmptyNoRaise ==
    /\ seg_pc # "raised"
    /\ (seg_pc = "done" /\ \E a \in 1..NumPairs : PairAbsent(a)) =>
        /\ Len(processed_segments) = NumPairs
        /\ \A k \in 1..NumPairs :
              /\ PairAbsent(k) => processed_segments[k] = <<>>
              /\ processed_segments[k] # <<>> => ChainPos(k) # 0

\* C2 witness: a finished extraction of a log with an absent pair, a
\* non-empty extracted segment, and a present pair whose segment is empty.
C2_Witness ==
    /\ seg_pc = "done"
    /\ \E a \in 1..NumPairs : PairAbsent(a)
    /\ \E k \in 1..NumPairs : processed_segments[k] # <<>>
    /\ \E k \in 1..NumPairs : PairPresent(k) /\ processed_segments[k] = <<>>

(***************************************************************************)
(* What the suspect-rule claims speak of, read off the rule and the texts  *)
(***************************************************************************)

IsPlainSignal(sig) == ~sig.bar
IsRequiredSignal(sig) == sig.bar /\ sig.modifier = "ME-REQ"
IsOptionalSignal(sig) == sig.bar /\ sig.modifier = "ME-OPT"
IsNotSignal(sig) == sig.bar /\ sig.modifier = "NOT"
IsNumericSignal(sig) == sig.bar /\ IsDecimal(sig.modifier)

\* The rule has a NOT|s signal whose s occurs in the callstack text.
HasMatchingNot ==
    \E i \in DOMAIN signal_list :
        /\ IsNotSignal(signal_list[i])
        /\ Contains(segment_callstack_intact, signal_list[i].string)

HasRequired == \E i \in DOMAIN signal_list : IsRequiredSignal(signal_list[i])

\* The evaluation of the rule (error_key, signal_list) is over.
RuleEvaluated == sus_pc \in {"rules", "returned"} /\ rule_no > 0

Reported(key) ==
    \E i \in DOMAIN autoscan_report : autoscan_report[i] = SuspectMessage(key)

\* The number of times text contains s: the largest number of pairwise
\* non-overlapping occurrences of s in text.
Occurrences(text, s) ==
    LET occ == { i \in 0..(Len(text) - Len(s)) :
                   SubSeq(text, i + 1, i + Len(s)) = s }
        Disjoint(P) == \A p1 \in P, p2 \in P :
                          p1 < p2 => p2 - p1 >= Len(s)
        sizes == { Cardinality(P) : P \in { Q \in SUBSET occ : Disjoint(Q) } }
    IN  CHOOSE n \in sizes : \A m \in sizes : m <= n

\* C5: while a rule with a NOT|s signal whose s occurs in the callstack is
\* being evaluated, no step appends to the report or sets the returned flag,
\* wherever the NOT signal stands and whatever the other signals match.
C5_NotSignalDisqualifies ==
    [][ (sus_pc = "signals" /\ HasMatchingNot) =>
            /\ autoscan_report' = autoscan_report
            /\ any_suspect_found' = any_suspect_found ]_vars

\* C5 witness: an evaluated rule whose matching NOT signal comes after a
\* signal that set stack_found, and that is not in the report.
C5_Witness ==
    /\ RuleEvaluated
    /\ \E i \in DOMAIN signal_list :
          /\ i > 1
          /\ IsNotSignal(signal_list[i])
          /\ Contains(segment_callstack_intact, signal_list[i].string)
    /\ match_status.stack_found
    /\ ~Reported(error_key)
    /\ ~any_suspect_found

\* C6: for a rule with an N|s signal, a callstack containing s exactly N
\* times triggers the rule through that signal (the rule is reported unless a
\* NOT signal disqualifies it or it requires a main-error match), and a
\* callstack containing s exactly N-1 times does not (a rule all of whose
\* signals are numeric and one occurrence short is not reported).
C6_MinimumCountThreshold ==
    RuleEvaluated =>
        \A i \in DOMAIN signal_list :
            IsNumericSignal(signal_list[i]) =>
                LET n == ToInt(signal_list[i].modifier)
                    c == Occurrences(segment_callstack_intact,
                                     signal_list[i].string)
                IN  /\ (c = n /\ ~HasMatchingNot /\ ~HasRequired)
                          => Reported(error_key)
                    /\ (/\ c = n - 1
                        /\ \A j \in DOMAIN signal_list :
                             /\ IsNumericSignal(signal_list[j])
                             /\ Occurrences(segment_callstack_intact,
                                            signal_list[j].string)
                                  = ToInt(signal_list[j].modifier) - 1)
                          => ~Reported(error_key)

\* C6 witness: an evaluated and reported rule with one numeric signal met
\* exactly (N >= 2) and another one occurrence short.
C6_Witness ==
    /\ RuleEvaluated
    /\ Reported(error_key)
    /\ \E i \in DOMAIN signal_list, j \in DOMAIN signal_list :
          /\ IsNumericSignal(signal_list[i])
          /\ IsNumericSignal(signal_list[j])
          /\ ToInt(signal_list[i].modifier) >= 2
          /\ Occurrences(segment_callstack_intact, signal_list[i].string)
                = ToInt(signal_list[i].modifier)
          /\ Occurrences(segment_callstack_intact, signal_list[j].string)
                = ToInt(signal_list[j].modifier) - 1

\* The verdict the specification gives a rule that no NOT signal disqualifies.
RuleVerdict ==
    IF HasRequired
    THEN \E i \in DOMAIN signal_list :
            /\ IsRequiredSignal(signal_list[i])
            /\ Contains(crashlog_mainerror, signal_list[i].string)
    ELSE \/ \E i \in DOMAIN signal_list :
              /\ IsOptionalSignal(signal_list[i])
              /\ Contains(crashlog_mainerror, signal_list[i].string)
         \/ \E i \in DOMAIN signal_list :
              /\ IsPlainSignal(signal_list[i])
              /\ Contains(segment_callstack_intact, signal_list[i].string)
         \/ \E i \in DOMAIN signal_list :
              /\ IsNumericSignal(signal_list[i])
              /\ Count(segment_callstack_intact, signal_list[i].string)
                    >= ToInt(signal_list[i].modifier)

\* C7: a rule that no NOT signal disqualifies matches iff, when it has a
\* ME-REQ signal, some ME-REQ string is in the main error, and otherwise iff
\* some ME-OPT string is in the main error or some plain or N|s signal is
\* found in the callstack.
C7_FinalVerdict ==
    (RuleEvaluated /\ ~HasMatchingNot) =>
        (Reported(error_key) <=> RuleVerdict)

\* C7 witness: an evaluated rule with an unmet ME-REQ signal and a stack
\* signal that was found, which is not reported.
C7_Witness ==
    /\ RuleEvaluated
    /\ ~HasMatchingNot
    /\ HasRequired
    /\ match_status.stack_found
    /\ ~match_status.error_req_found
    /\ ~Reported(error_key)

(***************************************************************************)
(* What the cache claims speak of                                          *)
(***************************************************************************)

\* C3: with no reset, whatever the interleaving of the callers, the
\* integrity computation (main_combined_result, then game_combined_result)
\* runs at most once, and every caller with FCX mode enabled that has
\* finished holds the results of one and the same single computation.
C3_ComputedOnceSharedByAll ==
    /\ Len(main_calls) <= 1
    /\ Len(game_calls) <= Len(main_calls)
    /\ \A t \in DOMAIN fcx_pc :
          (fcx_pc[t] = "done" /\ fcx_mode[t]) =>
              /\ Len(main_calls) = 1
              /\ Len(game_calls) = 1
              /\ main_files_check[t] = main_calls[1]
              /\ game_files_check[t] = game_calls[1]

\* C3 witness: at least two callers with FCX mode enabled have all finished.
C3_Witness ==
    /\ DOMAIN fcx_pc # {}
    /\ \A t \in DOMAIN fcx_pc : fcx_pc[t] = "done" /\ fcx_mode[t]
    /\ Cardinality(DOMAIN fcx_pc) >= 2
    /\ Len(main_calls) = 1

(***************************************************************************)
(* Claims about the batch runner (SpecBatch)                               *)
(***************************************************************************)

\* the futures have all been yielded and the loop of lines 147-169 is over
AfterLoop == batch_pc \in {"terminal", "end"}

\* the task of f returned a result / raised
Returned(f) == task[f].state = "finished" /\ ~task[f].outcome.raised
TaskRaised(f) == task[f].state = "finished" /\ task[f].outcome.raised

ReturnedFiles == { f \in crashlog_list : Returned(f) }

\* the futures whose consumption ended in the except clause
CaughtFiles == { f \in crashlog_list :
                   consumed[f] \in {"task_error", "write_error", "move_error"} }

RECURSIVE SumLocal(_, _)
SumLocal(S, key) ==
    IF S = {} THEN 0
    ELSE LET f == CHOOSE x \in S : TRUE
         IN  task[f].outcome.local_stats[key] + SumLocal(S \ {f}, key)

\* the consumer loop deals with the future of f in this step
Consuming(f) ==
    /\ batch_pc = "consume"
    /\ f \in crashlog_list
    /\ consumed[f] = "no"
    /\ consumed'[f] # "no"

\* C4: in a batch, the cache is reset before any check of the batch is
\* requested, it is reset at most once, and the integrity computation runs
\* at most once, the checks of the scanner's construction included.
C4_ResetBeforeChecksOncePerBatch ==
    /\ fcx_trace.early_checks = 0
    /\ fcx_trace.resets <= 1
    /\ fcx_trace.computes <= 1

\* C8: when the consumer meets a future whose task raised, it counts exactly
\* one failure, touches no other future and stays in its loop; once the loop
\* is over every future has been consumed, and every task that returned has
\* its report written unless writing or moving it failed.
C8_TaskErrorIsolated ==
    /\ [][\A f \in Files :
            (Consuming(f) /\ TaskRaised(f)) =>
               /\ crashlog_stats' =
                     [crashlog_stats EXCEPT !.failed = @ + 1]
               /\ batch_pc' = "consume"
               /\ task' = task
               /\ \A g \in crashlog_list \ {f} : consumed'[g] = consumed[g]
               /\ report_place' = report_place
               /\ scan_failed_list' = scan_failed_list]_vars
    /\ [](AfterLoop =>
            \A g \in crashlog_list :
               /\ consumed[g] # "no"
               /\ TaskRaised(g) <=> consumed[g] = "task_error"
               /\ consumed[g] = "ok" => report_place[g] # "none")

\* One task raised and was caught, the other file's result was merged and
\* its report written.
C8_Witness ==
    /\ AfterLoop
    /\ \E f, g \in crashlog_list :
          /\ TaskRaised(f)
          /\ consumed[g] = "ok"
          /\ task[g].outcome.local_stats.scanned = 1
          /\ report_place[g] = "logs"
    /\ crashlog_stats = [scanned |-> 1, incomplete |-> 0, failed |-> 1]

\* C9: after the loop, every file whose task raised is named in the
\* combined notice.
C9_RaisedFilesNamedInNotice ==
    batch_pc = "end" =>
       \A f \in crashlog_list :
          TaskRaised(f) =>
             /\ notice.issued
             /\ \E i \in 1..Len(notice.failed) : notice.failed[i] = FileName(f)

\* only the consumer's step for a future changes the statistics of a batch
\* under way; a task's step never does
SingleWriter ==
    [][batch_pc = "consume" =>
          /\ task' # task => crashlog_stats' = crashlog_stats
          /\ crashlog_stats' # crashlog_stats =>
                \E f \in Files : Consuming(f)]_vars

\* C10 as stated: single writer, and after the batch each total is the sum
\* of the local counters of the tasks that returned.
C10_TotalsEqualSumsOfReturned ==
    /\ SingleWriter
    /\ [](AfterLoop =>
            /\ crashlog_stats.scanned = SumLocal(ReturnedFiles, "scanned")
            /\ crashlog_stats.incomplete = SumLocal(ReturnedFiles, "incomplete")
            /\ crashlog_stats.failed = SumLocal(ReturnedFiles, "failed"))

\* C10 amended: single writer; after the batch the scanned and incomplete
\* totals are the sums of the local counters of the tasks that returned,
\* and the failed total is that sum plus one for every future whose
\* consumption ended in the except clause.
C10_TotalsEqualSumsPlusCaught ==
    /\ SingleWriter
    /\ [](AfterLoop =>
            /\ crashlog_stats.scanned = SumLocal(ReturnedFiles, "scanned")
            /\ crashlog_stats.incomplete = SumLocal(ReturnedFiles, "incomplete")
            /\ crashlog_stats.failed =
                  SumLocal(ReturnedFiles, "failed") + Cardinality(CaughtFiles))

\* One task returned a failed counter of 1 and was merged, the other task
\* raised and was caught; the failed total is 2.
C10_Witness ==
    /\ AfterLoop
    /\ \E f, g \in crashlog_list :
          /\ consumed[f] = "ok"
          /\ task[f].outcome.local_stats.failed = 1
          /\ consumed[g] = "task_error"
    /\ crashlog_stats = [scanned |-> 0, incomplete |-> 0, failed |-> 2]

\* the consumer wrote the report of f and relocation applied to it
Relocated(f) ==
    /\ f \in crashlog_list
    /\ consumed[f] = "ok"
    /\ task[f].outcome.trigger_scan_failed
    /\ settings.move_unsolved_logs

\* C11: once a file with its failed flag set has been dealt with under
\* relocation, its report is in the backup folder and its log is there too
\* under its own name, or was already gone; neither stays where it was.
C11_LogAndReportBothMoved ==
    \A f \in Files :
       Relocated(f) =>
          /\ report_place[f] = "backup"
          /\ log_place[f] \in {"backup", "missing"}

(***************************************************************************)
(* Claims about FormID extraction (SpecFid)                                *)
(***************************************************************************)

\* the parts a line of the model was put together from
ShapeOf(line) == CHOOSE sh \in FormLineShapes : FormLine(sh) = line

AllSpace(s) == \A k \in 1..Len(s) : IsSpace(s[k])

\* the line, after leading whitespace, begins with the label (any letter
\* case), then the 0x-prefixed value with at least eight hex digits
HasFormIdValue(sh) ==
    /\ AllSpace(sh.lead)
    /\ UpperAll(sh.label) = UpperAll(FormIdLabel)
    /\ AllSpace(sh.gap)
    /\ UpperAll(sh.prefix) = UpperAll(HexPrefix)
    /\ Len(sh.digits) >= FormIdDigits
    /\ \A k \in 1..FormIdDigits : Upper(sh.digits[k]) \in
          {"0", "1", "2", "3", "4", "5", "6", "7", "8", "9",
           "A", "B", "C", "D", "E", "F"}

\* the first two digits are FF in some letter case
BeginsWithFF(sh) == sh.digits[1] \in {"F", "f"} /\ sh.digits[2] \in {"F", "f"}

RECURSIVE ExpectedFormids(_)
ExpectedFormids(lines) ==
    IF lines = <<>> THEN <<>>
    ELSE LET sh == ShapeOf(Head(lines))
         IN  (IF HasFormIdValue(sh) /\ ~BeginsWithFF(sh)
              THEN << FormIdText \o UpperAll(SubSeq(sh.digits, 1, FormIdDigits)) >>
              ELSE <<>>)
             \o ExpectedFormids(Tail(lines))

\* C12: the returned list holds, in line order and with repetitions, one
\* entry for every line that begins (after leading whitespace) with the
\* label and an eight-hex-digit value not beginning with FF in any letter
\* case, and no other; the entry carries the eight digits uppercased.
C12_FormIdsExtracted ==
    fid_pc = "returned" => formids_matches = ExpectedFormids(segment_callstack)

\* A value beginning with lowercase ff was left out and the lowercase value
\* on the next line was recorded, uppercased.
C12_Witness ==
    /\ fid_pc = "returned"
    /\ Len(segment_callstack) = 2
    /\ ShapeOf(segment_callstack[1]).digits =
          <<"f", "f", "0", "0", "0", "8", "0", "0">>
    /\ ShapeOf(segment_callstack[2]) = BaseShape
    /\ formids_matches =
          << FormIdText \o <<"0", "0", "0", "1", "A", "3", "3", "2">> >>

(***************************************************************************)
(* Claims about the external load-order parse (SpecLo)                     *)
(***************************************************************************)

\* the file was read and the call has returned
LoadOrderParsed == lo_pc = "returned" /\ loadorder_file.readable

\* the lines of the file after the first
EntryLines == SubSeq(loadorder_file.lines, 2, Len(loadorder_file.lines))

\* a line as written, without its line terminator
Verbatim(line) ==
    IF line # <<>> /\ line[Len(line)] = "\n"
    THEN SubSeq(line, 1, Len(line) - 1) ELSE line

NonBlank(line) == \E k \in 1..Len(line) : ~IsSpace(line[k])

\* first position among the entry lines at which nm is the name of a
\* non-blank line, NameOf giving the name a line stands for
FirstLineOf(nm, NameOf(_)) ==
    CHOOSE i \in 1..Len(EntryLines) :
       /\ NonBlank(EntryLines[i]) /\ NameOf(EntryLines[i]) = nm
       /\ \A j \in 1..(i - 1) :
             ~(NonBlank(EntryLines[j]) /\ NameOf(EntryLines[j]) = nm)

\* the returned map holds the names of the non-blank entry lines, each once,
\* in the order of their first lines, all tagged LO, and the flag says
\* whether there is any
MapIsFirstOccurrences(NameOf(_)) ==
    /\ { loadorder_plugins[k].name : k \in 1..Len(loadorder_plugins) } =
          { NameOf(EntryLines[i]) :
              i \in { j \in 1..Len(EntryLines) : NonBlank(EntryLines[j]) } }
    /\ \A k \in 1..Len(loadorder_plugins) :
          /\ loadorder_plugins[k].status = "LO"
          /\ \A m \in (k + 1)..Len(loadorder_plugins) :
                /\ loadorder_plugins[k].name # loadorder_plugins[m].name
                /\ FirstLineOf(loadorder_plugins[k].name, NameOf) <
                      FirstLineOf(loadorder_plugins[m].name, NameOf)
    /\ plugins_loaded <=> loadorder_plugins # <<>>

\* C13 as stated: the first line is discarded and every other non-blank line
\* is a plugin name verbatim, first occurrences kept in file order, tagged
\* LO; the flag is true iff a plugin was collected.
C13_NamesVerbatim ==
    LoadOrderParsed => MapIsFirstOccurrences(Verbatim)

\* C13 amended: the name of a line is the line with its leading and trailing
\* whitespace removed, and first occurrences are of these names.
C13_NamesStripped ==
    LoadOrderParsed => MapIsFirstOccurrences(StripChars)

\* The first line names a plugin and is discarded; of the two entry lines
\* "A" with and without surrounding blanks only one name is kept.
C13_Witness ==
    /\ LoadOrderParsed
    /\ loadorder_file.lines = << <<"A", "\n">>, <<" ", "A", "\n">>, <<"B", "\n">> >>
    /\ loadorder_plugins = << [name |-> <<"A">>, status |-> "LO"],
                              [name |-> <<"B">>, status |-> "LO"] >>
    /\ plugins_loaded

(***************************************************************************)
(* Claims about plugin_match (SpecPm)                                      *)
(***************************************************************************)

\* the lines of the callstack that count for plugin p: they hold its name
\* and no 'modified by:'
HitLines(p) ==
    { i \in 1..Len(segment_callstack_lower) :
        /\ ~Contains(segment_callstack_lower[i], ModifiedBy)
        /\ Contains(segment_callstack_lower[i], p) }

\* the hit count of plugin p; a plugin of the game ignore set has none
Hits(p) == IF p \in lower_plugins_ignore THEN 0 ELSE Cardinality(HitLines(p))

\* the positions of the report that hold a plugin line
PluginLinePositions ==
    { k \in 1..Len(plugin_report) : plugin_report[k].kind = "plugin" }

\* C14: the report holds one line for every plugin with a hit and for no
\* other, with its hit count, in descending count and, within a count,
\* ascending name, whatever the iteration order of the set; lines holding
\* 'modified by:' and ignored plugins give no hit; with no hit at all the
\* report is the no-suspects line alone.
C14_PluginLinesRanked ==
    pm_pc = "returned" =>
       IF \A p \in crashlog_plugins_lower : Hits(p) = 0
       THEN plugin_report = <<FixedLine("no plugin suspects")>>
       ELSE /\ \A p \in crashlog_plugins_lower :
                  Cardinality({ k \in PluginLinePositions :
                                  plugin_report[k].plugin = p }) =
                     (IF Hits(p) > 0 THEN 1 ELSE 0)
            /\ \A k \in PluginLinePositions :
                  /\ plugin_report[k].plugin \in crashlog_plugins_lower
                  /\ plugin_report[k].count = Hits(plugin_report[k].plugin)
            /\ \A k, m \in PluginLinePositions :
                  k < m =>
                     \/ plugin_report[k].count > plugin_report[m].count
                     \/ /\ plugin_report[k].count = plugin_report[m].count
                        /\ TextLess(plugin_report[k].plugin, plugin_report[m].plugin)
            /\ \A k \in 1..Len(plugin_report) :
                  plugin_report[k].kind # "no plugin suspects"

\* The set was iterated b first; a and b have one hit each, the line with
\* 'modified by:' gave a none, and a is listed before b.
C14_Witness ==
    /\ pm_pc = "returned"
    /\ plugins_iteration = << <<"b">>, <<"a">> >>
    /\ lower_plugins_ignore = {}
    /\ segment_callstack_lower =
          << <<"x", "a", "b">>, ModifiedBy \o <<" ", "a">> >>
    /\ plugin_report[2] = [kind |-> "plugin", plugin |-> <<"a">>, count |-> 1]
    /\ plugin_report[3] = [kind |-> "plugin", plugin |-> <<"b">>, count |-> 1]

(***************************************************************************)
(* Claims about the named record scanner (SpecRec)                         *)
(***************************************************************************)

\* the line holds text in some letter case
HoldsAnyCase(line, text) ==
    \E i \in 0..(Len(line) - Len(text)) :
       \A k \in 1..Len(text) : Lower(line[i + k]) = Lower(text[k])

\* the lines the claim says are captured
CapturedLines ==
    { i \in 1..Len(record_callstack) :
        /\ \E r \in lower_records : HoldsAnyCase(record_callstack[i], r)
        /\ \A r \in lower_ignore : ~HoldsAnyCase(record_callstack[i], r) }

\* the text the claim says a captured line gives
CapturedText(line) ==
    IF \E i \in 1..(Len(line) - Len(rsp_marker) + 1) :
          SubSeq(line, i, i + Len(rsp_marker) - 1) = rsp_marker
    THEN StripChars(SubSeq(line, rsp_offset + 1, Len(line)))
    ELSE StripChars(line)

RecordLinePositions ==
    { k \in 1..Len(record_report) : record_report[k].kind = "record" }

LinesWith(prefix) ==
    { i \in 1..Len(header_data) : TextStartsWith(header_data[i], prefix) }

LastOf(S) == CHOOSE a \in S : \A b \in S : a >= b
FirstOf(S) == CHOOSE a \in S : \A b \in S : a <= b

\* every separator of the line is a newline
SeparatorsToNewlines(line) ==
    [k \in 1..Len(line) |-> IF line[k] = "|" THEN "\n" ELSE line[k]]

\* C16: the game version and the generator version are the last line that
\* begins with their prefix, the main error is the first line that begins
\* with the marker, every separator of it replaced by a newline; a field
\* without a matching line is UNKNOWN.
C16_HeaderFields ==
    hdr_pc = "returned" =>
       /\ game_version =
             IF game_root_name # <<>> /\ LinesWith(game_root_name) # {}
             THEN StripChars(header_data[LastOf(LinesWith(game_root_name))])
             ELSE UNKNOWN
       /\ crashgen_version =
             IF LinesWith(crashgen_name) # {}
             THEN StripChars(header_data[LastOf(LinesWith(crashgen_name))])
             ELSE UNKNOWN
       /\ main_error =
             IF LinesWith(UnhandledException) # {}
             THEN SeparatorsToNewlines(
                     header_data[FirstOf(LinesWith(UnhandledException))])
             ELSE UNKNOWN

(***************************************************************************)
(* C17  loadorder_scan_log: first occurrence of a name wins                *)
(***************************************************************************)

\* the entries dealt with so far that match the pattern
MatchedEntries ==
    { i \in 1..plugin_entry_no : PluginSearch(segment_plugins[i]).matched }

\* the first entry that names a plugin
FirstEntryOf(name) ==
    CHOOSE i \in MatchedEntries :
        /\ PluginSearch(segment_plugins[i]).name = name
        /\ \A j \in MatchedEntries :
              PluginSearch(segment_plugins[j]).name = name => i <= j

\* an entry that names a plugin of the map
Duplicate(i) ==
    /\ PluginSearch(segment_plugins[i]).matched
    /\ HasKey(plugin_map, PluginSearch(segment_plugins[i]).name)

\* C17: in the plugin map built by the in-log parse the keys are unique, they
\* are the names of the matching lines in order of first appearance, and the
\* status of a name is the id of its first matching line without the colon;
\* a later line with the same name leaves the map unchanged.
C17_FirstOccurrenceWins ==
    /\ [](/\ \A k, m \in 1..Len(plugin_map) :
                k # m => plugin_map[k].name # plugin_map[m].name
          /\ { plugin_map[k].name : k \in 1..Len(plugin_map) }
                = { PluginSearch(segment_plugins[i]).name : i \in MatchedEntries }
          /\ \A k, m \in 1..Len(plugin_map) :
                k < m => FirstEntryOf(plugin_map[k].name)
                            < FirstEntryOf(plugin_map[m].name)
          /\ \A k \in 1..Len(plugin_map) :
                plugin_map[k].status =
                  WithoutColons(
                    PluginSearch(segment_plugins[FirstEntryOf(plugin_map[k].name)]).id))
    /\ [][(pl_pc = "loop" /\ plugin_entry_no' = plugin_entry_no + 1
             /\ Duplicate(plugin_entry_no + 1))
          => plugin_map' = plugin_map]_vars

\* two lines name A.esm with different ids and the first id is kept
C17_Witness ==
    /\ pl_pc = "returned"
    /\ segment_plugins = << <<"[", "0", "0", "]", " ", "A", ".", "e", "s", "m">>,
                            <<"[", "f", "e", ":", "0", "a", "2", "]", " ", "A", ".", "e", "s", "m">> >>
    /\ plugin_map = << [name |-> <<"A", ".", "e", "s", "m">>, status |-> <<"0", "0">>] >>

(***************************************************************************)
(* C18  filter_ignored_plugins                                             *)
(***************************************************************************)

Ignored(name) == LowerAll(name) \in ignore_plugins_list

\* C18: after filter_ignored_plugins the plugin map holds no key whose
\* lowercased name is in the ignore set, also when two keys differ only in
\* letter case, and every other key is kept, in place, with its status.
C18_IgnoredKeysRemoved ==
    flt_pc = "returned" =>
        crashlog_plugins = SelectSeq(crashlog_plugins_given, LAMBDA r : ~Ignored(r.name))

\* C18, the part that holds: a key that is not ignored is kept, in place, with
\* its status, and of the ignored keys that share a lowercased name the last
\* one is removed.
C18_OthersKeptLastIgnoredRemoved ==
    flt_pc = "returned" =>
        /\ SelectSeq(crashlog_plugins, LAMBDA r : ~Ignored(r.name))
              = SelectSeq(crashlog_plugins_given, LAMBDA r : ~Ignored(r.name))
        /\ \A k \in 1..Len(crashlog_plugins) :
              \E m \in 1..Len(crashlog_plugins_given) :
                 crashlog_plugins_given[m] = crashlog_plugins[k]
        /\ \A m \in 1..Len(crashlog_plugins_given) :
              (/\ Ignored(crashlog_plugins_given[m].name)
               /\ \A n \in (m + 1)..Len(crashlog_plugins_given) :
                     LowerAll(crashlog_plugins_given[n].name)
                        # LowerAll(crashlog_plugins_given[m].name))
              => ~HasKey(crashlog_plugins, crashlog_plugins_given[m].name)

\* keys A.esp and a.esp with a.esp ignored: A.esp is still in the map
C18_Witness ==
    /\ flt_pc = "returned"
    /\ ignore_plugins_list = { <<"a", ".", "e", "s", "p">> }
    /\ crashlog_plugins_given =
          << [name |-> <<"A", ".", "e", "s", "p">>, status |-> <<"0", "0">>],
             [name |-> <<"a", ".", "e", "s", "p">>, status |-> <<"F", "E", "0", "0", "1">>] >>
    /\ crashlog_plugins =
          << [name |-> <<"A", ".", "e", "s", "p">>, status |-> <<"0", "0">>] >>

(***************************************************************************)
(* C19  the terminal message of a batch                                    *)
(***************************************************************************)

AllConsumed ==
    \A f \in crashlog_list : task[f].state = "finished" /\ consumed[f] # "no"

\* C19: after all tasks of a batch are complete exactly one terminal message
\* is issued: the nothing-to-scan notice iff the scanned and the incomplete
\* totals are both zero, whatever the failed total, and otherwise the
\* completion message with the three totals.  No terminal message is issued
\* before the tasks are complete, and none is issued twice.
C19_OneTerminalMessage ==
    /\ [](batch_pc = "end" =>
             /\ terminal_message.kind \in {"nothing to scan", "scan complete"}
             /\ terminal_message.kind = "nothing to scan"
                   <=> (crashlog_stats.scanned = 0 /\ crashlog_stats.incomplete = 0)
             /\ terminal_message.kind = "scan complete"
                   => terminal_message.stats = crashlog_stats)
    /\ [](batch_pc # "end" => terminal_message.kind = "none")
    /\ [][terminal_message' # terminal_message =>
             \/ terminal_message.kind = "none" /\ AllConsumed /\ batch_pc' = "end"
             \/ terminal_message'.kind = "none" /\ batch_pc' = "start"]_vars

\* a batch whose only log failed: nothing to scan, with a failed total of 1
C19_Witness ==
    /\ batch_pc = "end"
    /\ crashlog_list # {}
    /\ crashlog_stats = [scanned |-> 0, incomplete |-> 0, failed |-> 1]
    /\ terminal_message.kind = "nothing to scan"

(***************************************************************************)
(* C20  suspect_scan_stack: order of the report and the returned flag      *)
(***************************************************************************)

\* a rule is skipped when one of its NOT strings is in the callstack
RuleSkipped(rule) ==
    \E k \in 1..Len(rule.signals) :
        /\ rule.signals[k].bar
        /\ rule.signals[k].modifier = "NOT"
        /\ Contains(segment_callstack_intact, rule.signals[k].string)

HasSignal(rule, P(_)) == \E k \in 1..Len(rule.signals) : P(rule.signals[k])

\* a rule that is not skipped matches on its required strings when it has
\* any, and else on an optional string or a callstack signal
RuleMatches(rule) ==
    /\ ~RuleSkipped(rule)
    /\ IF HasSignal(rule, LAMBDA g : g.bar /\ g.modifier = "ME-REQ")
       THEN HasSignal(rule, LAMBDA g : /\ g.bar /\ g.modifier = "ME-REQ"
                                       /\ Contains(crashlog_mainerror, g.string))
       ELSE \/ HasSignal(rule, LAMBDA g : /\ g.bar /\ g.modifier = "ME-OPT"
                                          /\ Contains(crashlog_mainerror, g.string))
            \/ HasSignal(rule, LAMBDA g : /\ ~g.bar
                                          /\ Contains(segment_callstack_intact, g.string))
            \/ HasSignal(rule, LAMBDA g : /\ g.bar /\ IsDecimal(g.modifier)
                                          /\ Count(segment_callstack_intact, g.string)
                                                >= ToInt(g.modifier))

\* the entries of the matched rules among the first n of the database, in
\* database order
RECURSIVE MatchedRuleEntries(_)
MatchedRuleEntries(n) ==
    IF n = 0 THEN <<>>
    ELSE LET rule == suspects_stack_list[n]
         IN  MatchedRuleEntries(n - 1) \o
               (IF RuleMatches(rule)
                THEN << [name |-> rule.name, severity |-> rule.severity] >>
                ELSE <<>>)

\* the rules the loop is through with
RulesDone == IF sus_pc = "signals" THEN rule_no - 1 ELSE rule_no

\* C20: suspect_scan_stack appends the matched rules to the report in
\* rule-database order, each matched rule exactly once and no unmatched
\* rule, and returns true iff at least one rule was appended.
C20_MatchedRulesInDatabaseOrder ==
    /\ sus_pc \in {"rules", "signals", "returned"} =>
          /\ autoscan_report = MatchedRuleEntries(RulesDone)
          /\ any_suspect_found <=> (autoscan_report # <<>>)
    /\ sus_pc = "returned" =>
          /\ RulesDone = Len(suspects_stack_list)
          /\ \A n \in 1..Len(suspects_stack_list) :
                LET rule == suspects_stack_list[n]
                    entry == [name |-> rule.name, severity |-> rule.severity]
                IN  Cardinality({ k \in 1..Len(autoscan_report) :
                                    autoscan_report[k] = entry })
                       = IF RuleMatches(rule) THEN 1 ELSE 0

\* rule2 and rule1, in this order, both with the plain signal a, which
\* occurs three times in the callstack: each is in the report once, with
\* its severity, in database order
C20_Witness ==
    /\ sus_pc = "returned"
    /\ segment_callstack_intact = <<"a", "a", "a">>
    /\ suspects_stack_list =
          << [severity |-> "6", name |-> "rule2",
              signals |-> << [bar |-> FALSE, modifier |-> "", string |-> <<"a">>] >>],
             [severity |-> "5", name |-> "rule1",
              signals |-> << [bar |-> FALSE, modifier |-> "", string |-> <<"a">>] >>] >>
    /\ autoscan_report = << [name |-> "rule2", severity |-> "6"],
                            [name |-> "rule1", severity |-> "5"] >>
    /\ any_suspect_found

(***************************************************************************)
(* C21  formid_match: one line per group                                   *)
(***************************************************************************)

FormIdLines == SelectSeq(fm_report, LAMBDA l : l.kind = "formid")

\* the plugins whose status is the id of a group
PluginsOf(formid_full) ==
    { k \in 1..Len(fm_plugins) : fm_plugins[k].status = IdPrefix(formid_full) }

LinesOf(formid_full) ==
    { k \in 1..Len(FormIdLines) : FormIdLines[k].formid = formid_full }

\* C21: formid_match goes through the groups in sorted string order and
\* emits at most one line per group, for the first plugin whose status is
\* the group's first two hex digits, whether the lookup hits, misses or is
\* disabled; a group with no such plugin emits no line.
C21_OneLinePerGroup ==
    fm_pc = "returned" =>
        /\ \A k, m \in 1..Len(FormIdLines) :
              k < m => TextLess(FormIdLines[k].formid, FormIdLines[m].formid)
        /\ \A g \in 1..Len(formids_found) :
              LET formid_full == formids_found[g].name
              IN  /\ Cardinality(LinesOf(formid_full))
                        = IF PluginsOf(formid_full) = {} THEN 0 ELSE 1
                  /\ \A k \in LinesOf(formid_full) :
                        /\ FormIdLines[k].count = formids_found[g].count
                        /\ \E p \in PluginsOf(formid_full) :
                              /\ FormIdLines[k].plugin = fm_plugins[p].name
                              /\ \A q \in PluginsOf(formid_full) : p <= q

\* C21, the part that holds: the lines follow the sorted order of the
\* groups, a group with no plugin of its id has no line, a group with one
\* has a line for the first such plugin, and a line without description is
\* the last of its group.
C21_GroupsInOrderUndescribedLineLast ==
    fm_pc = "returned" =>
        /\ \A k, m \in 1..Len(FormIdLines) :
              k < m => ~TextLess(FormIdLines[m].formid, FormIdLines[k].formid)
        /\ \A k, m \in 1..Len(FormIdLines) :
              (k < m /\ FormIdLines[k].formid = FormIdLines[m].formid)
                 => FormIdLines[k].described
        /\ \A g \in 1..Len(formids_found) :
              LET formid_full == formids_found[g].name
              IN  /\ (LinesOf(formid_full) = {}) <=> (PluginsOf(formid_full) = {})
                  /\ LinesOf(formid_full) # {} =>
                        LET k == CHOOSE a \in LinesOf(formid_full) :
                                    \A b \in LinesOf(formid_full) : a <= b
                            p == CHOOSE a \in PluginsOf(formid_full) :
                                    \A b \in PluginsOf(formid_full) : a <= b
                        IN  FormIdLines[k].plugin = fm_plugins[p].name

\* two plugins with the id 00, both known to the lookup: the group has two
\* lines
C21_Witness ==
    /\ fm_pc = "returned"
    /\ fm_formids = << FormIdText \o <<"0", "0", "0", "0", "0", "0", "0", "1">> >>
    /\ Len(fm_plugins) = 2
    /\ formid_db = LookupEntries
    /\ Len(FormIdLines) = 2
    /\ FormIdLines[1].described /\ FormIdLines[2].described

(***************************************************************************)
(* C23  loadorder_scan_log: the statuses stored                            *)
(***************************************************************************)

IsHexText(s) == \A k \in 1..Len(s) : IsHexDigit(s[k])

\* the entries dealt with that gave the map an item with this status
EntriesStoring(status) ==
    { i \in 1..plugin_entry_no :
        /\ PluginSearch(segment_plugins[i]).matched
        /\ \E k \in 1..Len(plugin_map) :
              /\ plugin_map[k].name = PluginSearch(segment_plugins[i]).name
              /\ plugin_map[k].status = status }

\* C23: every status stored by the in-log parse is the captured id without
\* colons, being 2 to 3 hex digits, or DLL when no id was captured and the
\* name holds dll in any letter case, or ??? otherwise.
C23_StatusIsShortIdDllOrUnknown ==
    \A k \in 1..Len(plugin_map) :
        LET status == plugin_map[k].status
            i == FirstEntryOf(plugin_map[k].name)
            m == PluginSearch(segment_plugins[i])
        IN  \/ /\ m.has_id
               /\ status = WithoutColons(m.id)
               /\ IsHexText(status)
               /\ Len(status) \in 2..3
            \/ /\ ~m.has_id
               /\ Contains(LowerAll(m.name), <<"d", "l", "l">>)
               /\ status = plugin_status_dll
            \/ /\ ~m.has_id
               /\ ~Contains(LowerAll(m.name), <<"d", "l", "l">>)
               /\ status = plugin_status_unknown

\* C23, what holds: every status is the id of the first line of the name
\* without its colon, two hex digits or FE and three hex digits as written
\* in the line; no status is DLL or ???, whatever the name.
C23_StatusIsAlwaysTheId ==
    \A k \in 1..Len(plugin_map) :
        LET status == plugin_map[k].status
            m == PluginSearch(segment_plugins[FirstEntryOf(plugin_map[k].name)])
        IN  /\ status = WithoutColons(m.id)
            /\ IsHexText(status)
            /\ \/ Len(status) = FullIdDigits
               \/ /\ Len(status) = 2 + LightIdDigits
                  /\ UpperAll(SubSeq(status, 1, 2)) = <<"F", "E">>
            /\ status # plugin_status_dll
            /\ status # plugin_status_unknown

\* a light plugin (status FE001, five hex digits) and a name that holds dll
\* (status the id, not DLL)
C23_Witness ==
    /\ pl_pc = "returned"
    /\ segment_plugins = << <<"[", "F", "E", ":", "0", "0", "1", "]", " ", "B", ".", "e", "s", "l">>,
                            <<"[", "0", "1", "]", " ", "d", "l", "l", ".", "e", "s", "p">> >>
    /\ plugin_map = << [name |-> <<"B", ".", "e", "s", "l">>,
                        status |-> <<"F", "E", "0", "0", "1">>],
                       [name |-> <<"d", "l", "l", ".", "e", "s", "p">>,
                        status |-> <<"0", "1">>] >>

(***************************************************************************)
(* C30  FormIDs of the plugins of the log are attributed                   *)
(***************************************************************************)

\* the first two hex digits of the FormIDs of a plugin with this status:
\* its two-digit id, FE for a light plugin
LoadOrderIdOf(status) == UpperAll(SubSeq(status, 1, IdPrefixLength))

\* the plugins of the map a Form ID belongs to
OwnersOf(formid_full) ==
    { k \in 1..Len(fm_plugins) :
        LoadOrderIdOf(fm_plugins[k].status) = IdPrefix(formid_full) }

Attributed(formid_full, k) ==
    \E l \in 1..Len(FormIdLines) :
        /\ FormIdLines[l].formid = formid_full
        /\ FormIdLines[l].plugin = fm_plugins[k].name

\* C30: a Form ID whose first two hex digits are the load-order id of a
\* plugin of the plugins segment is attributed to that plugin, for two-digit
\* ids in either letter case and for light plugins (FE:xxx, Form IDs that
\* begin with FE).
C30_FormIdsAttributedToTheirPlugin ==
    fm_pc = "returned" =>
        \A g \in 1..Len(formids_found) :
            \A k \in OwnersOf(formids_found[g].name) :
                OwnersOf(formids_found[g].name) = {k}
                    => Attributed(formids_found[g].name, k)

\* C30, what holds: the attribution is made for the ids of two digits
\* written as the Form ID has them, in upper case, and for no other plugin.
C30_OnlyUpperCaseTwoDigitIdsAttributed ==
    fm_pc = "returned" =>
        \A g \in 1..Len(formids_found) :
            \A k \in 1..Len(fm_plugins) :
                /\ (/\ fm_plugins[k].status = IdPrefix(formids_found[g].name)
                    /\ PluginsOf(formids_found[g].name) = {k})
                      => Attributed(formids_found[g].name, k)
                /\ Attributed(formids_found[g].name, k)
                      => fm_plugins[k].status = IdPrefix(formids_found[g].name)

\* the plugins [0a] C.esp and [FE:001] D.esl, the Form IDs 0A000001 and
\* FE001001: no line is emitted
C30_Witness ==
    /\ fm_pc = "returned"
    /\ fm_plugins = << [name |-> <<"C", ".", "e", "s", "p">>, status |-> <<"0", "a">>],
                       [name |-> <<"D", ".", "e", "s", "l">>,
                        status |-> <<"F", "E", "0", "0", "1">>] >>
    /\ fm_formids = << FormIdText \o <<"0", "A", "0", "0", "0", "0", "0", "1">>,
                       FormIdText \o <<"F", "E", "0", "0", "1", "0", "0", "1">> >>
    /\ FormIdLines = <<>>

(***************************************************************************)
(* C22  scan_buffout_memorymanagement_settings                             *)
(***************************************************************************)

LinesAbout(key) == SelectSeq(mm_report, LAMBDA l : l.about = key)

\* one outcome: a warning with its fix, or a confirmation
IsWarning(lines) ==
    Len(lines) = 2 /\ lines[1].part = "warning" /\ lines[2].part = "fix"
IsConfirmation(lines) == Len(lines) = 1 /\ lines[1].part = "success"

\* the conflicts of the main setting
MainConflict ==
    \/ Truthy(mm_crashgen, MemoryManagerKey) /\ (has_xcell \/ has_baka_scrapheap)
    \/ ~Truthy(mm_crashgen, MemoryManagerKey) /\ has_baka_scrapheap

\* C22: for every combination of the MemoryManager flag, X-Cell and Baka
\* ScrapHeap the call emits exactly one outcome for the main setting, a
\* two-line warning on a conflict and else a one-line confirmation, and one
\* outcome for each of the four auxiliary settings iff X-Cell is present.
C22_OneOutcomePerSetting ==
    mm_pc = "returned" =>
        /\ IF MainConflict THEN IsWarning(LinesAbout(MemoryManagerKey))
           ELSE IsConfirmation(LinesAbout(MemoryManagerKey))
        /\ \A k \in 1..Len(memory_settings) :
              IF has_xcell
              THEN IsWarning(LinesAbout(memory_settings[k]))
                      \/ IsConfirmation(LinesAbout(memory_settings[k]))
              ELSE LinesAbout(memory_settings[k]) = <<>>

\* C22, what holds: the same, but that nothing is emitted for the main
\* setting when the manager is off and neither mod is present; an auxiliary
\* setting that is on gets the warning, the others the confirmation.
C22_OneOutcomeButWhenAllAbsent ==
    mm_pc = "returned" =>
        /\ IF MainConflict THEN IsWarning(LinesAbout(MemoryManagerKey))
           ELSE IF Truthy(mm_crashgen, MemoryManagerKey) \/ has_xcell
           THEN IsConfirmation(LinesAbout(MemoryManagerKey))
           ELSE LinesAbout(MemoryManagerKey) = <<>>
        /\ \A k \in 1..Len(memory_settings) :
              IF ~has_xcell THEN LinesAbout(memory_settings[k]) = <<>>
              ELSE IF Truthy(mm_crashgen, memory_settings[k])
              THEN IsWarning(LinesAbout(memory_settings[k]))
              ELSE IsConfirmation(LinesAbout(memory_settings[k]))

\* the manager off and no mod: the report is empty
C22_Witness ==
    /\ mm_pc = "returned"
    /\ ~Truthy(mm_crashgen, MemoryManagerKey)
    /\ ~has_xcell /\ ~has_baka_scrapheap
    /\ mm_report = <<>>

(***************************************************************************)
(* C24  extract_segments: a line that ends one segment and starts the next *)
(***************************************************************************)

\* the loop closes a segment at an end marker and goes on
ClosesSegment ==
    /\ seg_pc = "loop" /\ collecting
    /\ seg_pc' = "loop" /\ ~collecting'

\* the loop starts collecting for the pair whose end marker is the sentinel
StartsLastPair ==
    /\ seg_pc = "loop" /\ ~collecting /\ collecting'
    /\ segment_boundaries[segment_index + 1][2] = eof_marker

\* C24: a line that matches the current end marker closes the open segment
\* and is examined again, not consumed, against the start marker of the next
\* pair, so that the line that ends segment i starts segment i+1; and when
\* collection starts for the pair whose end marker is the EOF sentinel, the
\* final segment is all remaining lines and scanning stops.
C24_EndMarkerReexaminedEofTakesRest ==
    /\ [][ClosesSegment =>
             /\ StartsWith(CurrentLine, current_boundary)
             /\ Len(segments') = Len(segments) + 1
             /\ segment_index' = segment_index + 1
             /\ current_index' = current_index
             /\ current_boundary' = segment_boundaries[segment_index' + 1][1]]_vars
    /\ [][(/\ seg_pc = "loop" /\ ~collecting /\ segment_index >= 1
           /\ current_index < total_lines
           /\ StartsWith(CurrentLine, current_boundary))
          => /\ collecting'
             /\ segment_start_index' = current_index + 1
             /\ segment_index' = segment_index]_vars
    /\ [][StartsLastPair =>
             /\ seg_pc' = "extracted"
             /\ segments' = Append(segments, SliceFrom(crash_data, current_index + 1))]_vars

\* the line SYSTEM SPECS: has closed the first segment and started the
\* second one
C24_Witness ==
    /\ seg_pc = "loop"
    /\ collecting
    /\ segment_index = 1
    /\ Len(segments) = 1
    /\ segment_start_index >= 1
    /\ StartsWith(crash_data[segment_start_index], segment_boundaries[1][2])
    /\ StartsWith(crash_data[segment_start_index], segment_boundaries[2][1])

\* the line PLUGINS: has started the last pair: the final segment holds the
\* lines that remain
C24_WitnessEof ==
    /\ seg_pc = "extracted"
    /\ collecting
    /\ current_boundary = eof_marker
    /\ Len(segments) = NumPairs
    /\ segments[NumPairs] # <<>>
    /\ segments[NumPairs] = SliceFrom(crash_data, segment_start_index)

(***************************************************************************)
(* C26  extract_segments terminates, one segment per pair                  *)
(***************************************************************************)

InLoop == seg_pc = "loop" /\ current_index < total_lines

\* what is left to do: lines to read, and for each line pairs to go through
LoopMeasure ==
    (total_lines - current_index) * (NumPairs + 1) + (NumPairs - segment_index)

\* segment i is a run of lines that follows a start marker of pair i
BelongsToPair(i) ==
    \E j \in 1..Len(crash_data) :
        /\ StartsWith(crash_data[j], segment_boundaries[i][1])
        /\ \E e \in j..Len(crash_data) : segments[i] = SubSeq(crash_data, j + 1, e)

DisabledCall(t) == fcx_pc[t] = "call" /\ ~fcx_mode[t] /\ fcx_pc'[t] # "call"

\* C29: a handler with FCX mode disabled never runs the integrity
\* computation and leaves the session cache (the computed flag and both
\* stored results) as it is; its call only sets its own two fields, to the
\* message that FCX mode is disabled and to the empty string.
C29_DisabledHandlerLeavesCacheAlone ==
    /\ [](\A t \in Threads : ~fcx_mode[t] => fcx_pc[t] \in {"call", "done"})
    /\ [][\A t \in Threads : DisabledCall(t) =>
            /\ UNCHANGED fcxClassVars
            /\ main_files_check'[t] = DisabledMessage
            /\ game_files_check'[t] = ""
            /\ fcx_pc'[t] = "done"
            /\ \A u \in Threads \ {t} :
                  /\ main_files_check'[u] = main_files_check[u]
                  /\ game_files_check'[u] = game_files_check[u]
                  /\ fcx_pc'[u] = fcx_pc[u]]_vars

\* a disabled handler has been through the call after another handler's
\* call filled the cache
C29_Witness ==
    \E t \in Threads :
        /\ ~fcx_mode[t]
        /\ fcx_pc[t] = "done"
        /\ main_files_check[t] = DisabledMessage
        /\ fcx_checks_run
        /\ main_files_result \in MainResults
        /\ Len(main_calls) = 1

(***************************************************************************)
(* C27  reset_fcx_checks while callers are in check_fcx_mode               *)
(***************************************************************************)

FinishedEnabled(t) == fcx_mode[t] /\ fcx_pc[t] = "done"

\* the results of the computations completed so far, pair by pair
CompletedComputations ==
    { <<main_calls[i], game_calls[i]>> : i \in 1..Len(game_calls) }

\* C27: with reset_fcx_checks running among the check_fcx_mode calls,
\* every caller with FCX enabled finishes with main_files_check and
\* game_files_check taken from one and the same completed computation,
\* never an empty value and never a computed result next to a reset value.
C27_BothFromOneComputation ==
    \A t \in Threads :
        FinishedEnabled(t) =>
            <<main_files_check[t], game_files_check[t]>> \in CompletedComputations

\* What does hold: each field of a finished caller is the result of some
\* completed computation or the value the reset stores, and a caller that
\* read both fields before the reset took the lock has one computation's
\* pair.
C27_EachFieldComputedOrReset ==
    \A t \in Threads :
        FinishedEnabled(t) =>
            /\ main_files_check[t] \in {main_calls[i] : i \in 1..Len(main_calls)} \cup {""}
            /\ game_files_check[t] \in {game_calls[i] : i \in 1..Len(game_calls)} \cup {""}
            /\ reset_pc = "call" =>
                  <<main_files_check[t], game_files_check[t]>> \in CompletedComputations

\* a caller that read the first result before the reset and the second
\* after it
C27_Witness ==
    \E t \in Threads :
        /\ FinishedEnabled(t)
        /\ main_files_check[t] \in MainResults
        /\ game_files_check[t] = ""
        /\ reset_pc = "done"

\* a caller whose two reads came after the reset: both fields empty
C27_WitnessEmpty ==
    \E t \in Threads :
        /\ FinishedEnabled(t)
        /\ main_files_check[t] = ""
        /\ game_files_check[t] = ""
        /\ Len(game_calls) = 1

(***************************************************************************)
(* C25  loadorder.txt cannot be read                                       *)
(***************************************************************************)

LoadOrderFailed == ~loadorder_file.readable

\* C25: when reading loadorder.txt fails with an I/O error the call still
\* returns: the error line is appended to the report after the messages,
\* the plugin map returned is empty and the loaded flag is false.
C25_ReadErrorGivesEmptyMapAndErrorLine ==
    /\ [](LoadOrderFailed /\ lo_pc \in {"check", "returned"} =>
             /\ loadorder_plugins = <<>>
             /\ plugins_loaded = FALSE
             /\ loadorder_report = Append(loadorder_messages, loadorder_error_msg))
    /\ [][LoadOrderFailed /\ lo_pc = "open" => lo_pc' = "check"]_vars
    /\ [][LoadOrderFailed /\ lo_pc = "check" => lo_pc' = "returned"]_vars

\* the call has returned for a file with an entry whose reading failed
C25_Witness ==
    /\ LoadOrderFailed
    /\ Len(loadorder_file.lines) = 2
    /\ lo_pc = "returned"
    /\ loadorder_report[Len(loadorder_report)] = loadorder_error_msg

(***************************************************************************)
(* C28  the three totals and the number of files                           *)
(***************************************************************************)

TotalCounted ==
    crashlog_stats.scanned + crashlog_stats.incomplete + crashlog_stats.failed

\* the files whose report could not be written or whose log could not be
\* moved, after their counters were merged
FailedAfterMerge ==
    { f \in crashlog_list : consumed[f] \in {"write_error", "move_error"} }

\* C28: once crashlogs_scan has consumed every future, scanned + incomplete
\* + failed is the number of submitted files: each file is counted in one
\* total, also when writing its report or moving it raises after its
\* counters were merged.
C28_TotalsSumToFileCount ==
    AllConsumed => TotalCounted = Cardinality(crashlog_list)

\* What does hold: a file whose write or move raises is counted twice, once
\* by its own counters and once as failed; every other file once.
C28_FailedAfterMergeCountedTwice ==
    AllConsumed =>
        TotalCounted = Cardinality(crashlog_list) + Cardinality(FailedAfterMerge)

\* one file, scanned by its task, whose report could not be written: two
\* counts for one file
C28_Witness ==
    /\ AllConsumed
    /\ Cardinality(crashlog_list) = 1
    /\ \E f \in crashlog_list :
          /\ consumed[f] = "write_error"
          /\ task[f].outcome.local_stats.scanned = 1
    /\ crashlog_stats = [scanned |-> 1, incomplete |-> 0, failed |-> 1]

====
